---- MODULE Spec2Model ----
\* Conjunction threat analysis engine (orbit-service): the task-queue worker
\* (worker.py), the continuous threat worker loop (threat_worker.py) and the
\* batch analyzer (batch_threat_analysis.py): its pair selector, closest-approach
\* analysis, classifier and batch cycle, and the health endpoint and conjunction
\* assessment of the application (app.py). Spec follows the workers and the pair
\* selector on a catalog, LiveSpec the two loops under fairness, AnalysisSpec the
\* analysis, AppSpec the application.
EXTENDS Integers, Sequences, FiniteSets, TLC

\* ---------------------------------------------------------------------------
\* Bounds of the model
\* ---------------------------------------------------------------------------
\* Number of worker processes polling satellite_update_queue.
NumWorkers == 2
\* Number of entries producers have put on satellite_update_queue.
NumItems == 1
\* Number of analysis cycles the threat worker is followed for.
MaxCycles == 2
\* Largest catalog (number of satellite:tle:* keys) the pair selector is run on.
MaxSats == 3

\* ---------------------------------------------------------------------------
\* Task-queue worker: worker.py
\* ---------------------------------------------------------------------------
VARIABLES
    produced,   \* the entries the producers pushed, in push order (never changes)
    queue,      \* Redis list satellite_update_queue (head = left end)
    dlq,        \* Redis list satellite_update_dlq
    completed,  \* ids i for which the key task:completed:<i> has been written
    pc,         \* pc[w]: position of worker w in process_satellite_data
    task,       \* task[w]: the entry worker w holds (popped, not yet disposed of)
    err,        \* err[w]: str(e) of the exception _process_task caught
    running,    \* running[w]: self.running of worker w
    closed      \* closed[w]: self.redis_client.close() has been called

\* Continuous threat worker: threat_worker.py
VARIABLES
    tpc,        \* position of the threat worker in run_analysis_loop
    trunning,   \* self.running of the ThreatAnalyzer
    tclosed,    \* its redis client has been closed
    cycles,     \* number of cycles started (bounded by MaxCycles)
    satellites_cache, \* the keys of self.satellites_cache, in insertion order
    cycle_threats,    \* the list _analyze_collision_threats returned this cycle
    threats_current,  \* what threats:current holds
    alerts_queue,     \* the list alerts:queue
    alert_history,    \* the alert:<timestamp> keys the store holds, with their alerts
    clock,            \* what datetime.now() gives, one tick an alert
    store_errors,     \* the steps of the current cycle in which the store raised
    last_sleep,       \* the seconds the loop last slept, 0 before it ever did
    tle_keys          \* the satellite:tle:* keys the store listed at the last refresh

\* Pair selector: batch_threat_analysis.py
VARIABLES
    satellites, \* the catalog dict, as the sequence of its values in key order
    pairs,      \* the list _generate_satellite_pairs returned
    spc         \* "load" before the catalog is loaded, "select", then "done"

\* One call of the pair selector's predicate: batch_threat_analysis.py
VARIABLES
    cand,       \* <<sat1, sat2>>: the two catalog entries the predicate is called on
    verdict,    \* <<>> before the call, then <<result on (sat1, sat2), on (sat2, sat1)>>
    rpc         \* "call" before _should_analyze_pair is called, then "returned"

\* One closest-approach analysis of a pair: batch_threat_analysis.py
\* (_analyze_pair_collision_risk) and threat_worker.py (_check_collision_threat)
VARIABLES
    acall,      \* the inputs of the call: program, thresholds, window, propagations
    aresult,    \* None before the call and when no record is returned, else the record
    apc         \* "call" before the analysis runs, then "returned"

\* Classification of distances: _calculate_threat_level of both programs
VARIABLES
    ccall,      \* the inputs: the thresholds in force and two distances
    levels,     \* <<>> before the calls, then the levels both programs assign
    cpc         \* "call" before the classifier is called, then "returned"

\* One cycle of the batch analyzer: batch_threat_analysis.py (run_batch_analysis)
VARIABLES
    catalog,        \* the catalog the store holds, in the order it lists the keys
    tracks,         \* what propagating each pair of objects gives over the window
    futures,        \* the submitted batches, each pending, done or failed
    all_threats,    \* the list run_batch_analysis extends
    stored_threats, \* what threats:batch:current holds: NotWritten, or the list written
    alert_keys,     \* the alert:batch:* keys written
    bpc,            \* "start", "collect", "report", "done"; "raised" if the cycle raised;
                    \* "exited" once main has called sys.exit
    stats,          \* self.stats
    batch_analysis, \* what batch_analysis:<timestamp> holds
    threat_report,  \* what threat_report:<date> holds
    alerts_critical, \* the list alerts:critical
    alert_faults,   \* the records for which "Failed to create threat alert" was logged
    exit_code       \* NotExited, or the status main exited with

\* The alerts of consecutive batch cycles: batch_threat_analysis.py run again and
\* again against the same store (_create_threat_alert)
VARIABLES
    reruns,                 \* the number of cycles that have created their alert
    rerun_alerts_critical,  \* the list alerts:critical
    rerun_alert_keys,       \* the alert:batch:* keys the store holds
    rerun_alert_faults      \* the records whose alert could not be created

\* One BatchThreatAnalyzer instance whose run_batch_analysis is called again and
\* again: batch_threat_analysis.py (__init__, run_batch_analysis)
VARIABLES
    instance_runs,      \* the number of calls of run_batch_analysis that returned
    instance_stats,     \* self.stats of the instance
    instance_analysis,  \* what batch_analysis:<timestamp> holds: stats, threats, total
    instance_current,   \* what threats:batch:current holds: threats, stats
    instance_call       \* what the last call met: the objects loaded, an exception

\* The Flask application: app.py (module initialisation, /health,
\* AutonomousSatelliteTracker.assess_conjunction_threat)
VARIABLES
    app_pc,             \* "import" while the module is initialised, then "serving"
    redis_client,       \* the module's redis_client: NoClient or a client
    health_call,        \* what the last /health request met: the ping, the freshness
    health_response,    \* None before a request, then the last response of /health
    assess_call,        \* the inputs of the assessment: minimum distance, threshold
    assessment,         \* None before the call and when None is returned
    assess_pc           \* "call" before assess_conjunction_threat runs, then "returned"

workerVars == <<produced, queue, dlq, completed, pc, task, err, running, closed>>
threatStore == <<satellites_cache, cycle_threats, threats_current, alerts_queue,
                 alert_history, clock, store_errors, last_sleep, tle_keys>>
threatVars == <<tpc, trunning, tclosed, cycles, threatStore>>
selectorVars == <<satellites, pairs, spc>>
ruleVars == <<cand, verdict, rpc>>
samplerVars == <<acall, aresult, apc>>
classifierVars == <<ccall, levels, cpc>>
analysisVars == <<ruleVars, samplerVars, classifierVars>>
cycleVars == <<catalog, tracks, futures, all_threats, stored_threats, alert_keys, bpc,
               stats, batch_analysis, threat_report, alerts_critical, alert_faults,
               exit_code>>
rerunVars == <<reruns, rerun_alerts_critical, rerun_alert_keys, rerun_alert_faults>>
instanceVars == <<instance_runs, instance_stats, instance_analysis, instance_current,
                  instance_call>>
appVars == <<app_pc, redis_client, health_call, health_response, assess_call,
             assessment, assess_pc>>
vars == <<produced, queue, dlq, completed, pc, task, err, running, closed,
          tpc, trunning, tclosed, cycles, satellites, pairs, spc,
          cand, verdict, rpc, acall, aresult, apc,
          ccall, levels, cpc,
          catalog, tracks, futures, all_threats, stored_threats, alert_keys, bpc,
          stats, batch_analysis, threat_report, alerts_critical, alert_faults,
          exit_code, reruns, rerun_alerts_critical, rerun_alert_keys,
          rerun_alert_faults, satellites_cache, cycle_threats, threats_current,
          alerts_queue, alert_history, clock, store_errors, last_sleep,
          tle_keys, instance_runs, instance_stats, instance_analysis,
          instance_current, instance_call,
          app_pc, redis_client, health_call, health_response, assess_call,
          assessment, assess_pc>>

Workers == 1..NumWorkers
Items == 1..NumItems

\* The retry ceiling of _handle_task_failure.
RetryCeiling == 3

NoTask == [kind |-> "none"]
NoError == "none"

\* The payloads a producer can have pushed for entry i. The queue is fed from
\* outside the repository, so a payload is any string: a JSON object with or
\* without a retry_count, a JSON value that is no object, or no JSON at all.
Task(i, type, rc) ==
    [kind |-> "dict", id |-> i, type |-> type, retry_count |-> rc, last_error |-> NoError]

Payloads(i) ==
    { Task(i, "update", 0), Task(i, "predict", 0), Task(i, "update", RetryCeiling),
      Task(i, "update", RetryCeiling + 1),
      [kind |-> "list", id |-> i], [kind |-> "badjson", id |-> i] }

\* redis LPOP: the head of the list and the list without it (None on an empty list).
lpop_peek(q) ==
    IF q = <<>> THEN [value |-> NoTask, rest |-> q]
    ELSE [value |-> Head(q), rest |-> q]

lpop(q) ==
    IF q = <<>> THEN [value |-> NoTask, rest |-> q]
    ELSE [value |-> Head(q), rest |-> Tail(q)]

\* redis RPUSH: append at the tail.
rpush(q, v) == Append(q, v)

\* Outcomes of a Redis command: it is carried out, or it raises (connection lost,
\* also possible on a client that shutdown() has closed).
StoreOutcomes == {"ok", "raise"}

\* Outcomes of the type handler _process_task dispatches to: _update_satellite_data
\* re-raises an HTTP error or a Redis error; the predict and collision_check
\* handlers only log.
HandlerOutcomes(type) ==
    IF type = "update" THEN {"ok", "http", "store"} ELSE {"ok"}

\* task_data.get('retry_count', 0)
retry_count_of(t) == t.retry_count

\* The branch of _handle_task_failure: requeue below the ceiling, else dead-letter.
should_requeue(t) == retry_count_of(t) < RetryCeiling

\* The task as _handle_task_failure requeues it.
requeued_task(t, error) ==
    [t EXCEPT !.retry_count = retry_count_of(t) + 1, !.last_error = error]

\* The record _handle_task_failure pushes onto the dead-letter list.
dlq_entry(t, error) == [task |-> t, error |-> error]

\* The condition of `while self.running:`.
loop_condition_ignores_running(w) == TRUE

loop_condition(w) == running[w]

\* Where the loop's `except Exception` leaves the worker: it logs, sleeps 10 s and
\* falls through to the next evaluation of the loop condition.
on_loop_exception_exit == "exited"

on_loop_exception == "sleep10"

\* The exception leaves _process_task / json.loads and reaches the loop's handler:
\* the local variable holding the entry is lost.
RaiseToLoop(w) ==
    /\ pc' = [pc EXCEPT ![w] = on_loop_exception]
    /\ task' = [task EXCEPT ![w] = NoTask]
    /\ err' = [err EXCEPT ![w] = NoError]

\* `while self.running:` is evaluated.
WhileRunning(w) ==
    /\ pc[w] = "while"
    /\ pc' = [pc EXCEPT ![w] = IF loop_condition(w) THEN "lpop" ELSE "exited"]
    /\ UNCHANGED <<queue, dlq, completed, task, err, running, closed>>
    /\ UNCHANGED <<produced, threatVars, selectorVars, analysisVars, cycleVars, rerunVars, instanceVars, appVars>>

\* task = self.redis_client.lpop('satellite_update_queue'), and the `if task:` test.
Lpop(w) ==
    /\ pc[w] = "lpop"
    /\ \E o \in StoreOutcomes :
        IF o = "raise"
        THEN /\ pc' = [pc EXCEPT ![w] = on_loop_exception]
             /\ UNCHANGED <<queue, task>>
        ELSE LET r == lpop(queue) IN
             /\ queue' = r.rest
             /\ task' = [task EXCEPT ![w] = r.value]
             /\ pc' = [pc EXCEPT ![w] = IF r.value = NoTask THEN "sleep5" ELSE "process"]
    /\ UNCHANGED <<dlq, completed, err, running, closed>>
    /\ UNCHANGED <<produced, threatVars, selectorVars, analysisVars, cycleVars, rerunVars, instanceVars, appVars>>

\* task_data = json.loads(task); self._process_task(task_data) up to the end of the
\* type handler: the body of the try block of _process_task before line 106.
ProcessTask(w) ==
    /\ pc[w] = "process"
    /\ IF task[w].kind = "badjson"
       THEN \* json.loads raises in the loop body, outside _process_task
            /\ RaiseToLoop(w)
       ELSE IF task[w].kind = "list"
       THEN \* task_data.get raises AttributeError inside the try of _process_task
            /\ pc' = [pc EXCEPT ![w] = "fail"]
            /\ err' = [err EXCEPT ![w] = "attr"]
            /\ UNCHANGED task
       ELSE \E o \in HandlerOutcomes(task[w].type) :
            /\ pc' = [pc EXCEPT ![w] = IF o = "ok" THEN "mark" ELSE "fail"]
            /\ err' = [err EXCEPT ![w] = IF o = "ok" THEN NoError ELSE o]
            /\ UNCHANGED task
    /\ UNCHANGED <<queue, dlq, completed, running, closed>>
    /\ UNCHANGED <<produced, threatVars, selectorVars, analysisVars, cycleVars, rerunVars, instanceVars, appVars>>

\* self._mark_task_completed(task_data): setex task:completed:<id>. A Redis error
\* is caught by the except of _process_task like a handler error.
MarkTaskCompleted(w) ==
    /\ pc[w] = "mark"
    /\ \E o \in StoreOutcomes :
        IF o = "ok"
        THEN /\ completed' = completed \cup {task[w].id}
             /\ task' = [task EXCEPT ![w] = NoTask]
             /\ pc' = [pc EXCEPT ![w] = "while"]
             /\ UNCHANGED err
        ELSE /\ pc' = [pc EXCEPT ![w] = "fail"]
             /\ err' = [err EXCEPT ![w] = "store"]
             /\ UNCHANGED <<completed, task>>
    /\ UNCHANGED <<queue, dlq, running, closed>>
    /\ UNCHANGED <<produced, threatVars, selectorVars, analysisVars, cycleVars, rerunVars, instanceVars, appVars>>

\* self._handle_task_failure(task_data, str(e)), called from the except clause of
\* _process_task: whatever it raises reaches the loop's `except Exception`.
HandleTaskFailure(w) ==
    /\ pc[w] = "fail"
    /\ IF task[w].kind # "dict"
       THEN \* task_data.get('retry_count', 0) raises AttributeError
            /\ RaiseToLoop(w)
            /\ UNCHANGED <<queue, dlq>>
       ELSE \E o \in StoreOutcomes :
            IF o = "raise"
            THEN /\ RaiseToLoop(w)
                 /\ UNCHANGED <<queue, dlq>>
            ELSE /\ IF should_requeue(task[w])
                    THEN /\ queue' = rpush(queue, requeued_task(task[w], err[w]))
                         /\ UNCHANGED dlq
                    ELSE /\ dlq' = rpush(dlq, dlq_entry(task[w], err[w]))
                         /\ UNCHANGED queue
                 /\ task' = [task EXCEPT ![w] = NoTask]
                 /\ err' = [err EXCEPT ![w] = NoError]
                 /\ pc' = [pc EXCEPT ![w] = "while"]
    /\ UNCHANGED <<completed, running, closed>>
    /\ UNCHANGED <<produced, threatVars, selectorVars, analysisVars, cycleVars, rerunVars, instanceVars, appVars>>

\* time.sleep(5) on an empty queue, time.sleep(10) after a caught exception.
Sleep(w) ==
    /\ pc[w] \in {"sleep5", "sleep10"}
    /\ pc' = [pc EXCEPT ![w] = "while"]
    /\ UNCHANGED <<queue, dlq, completed, task, err, running, closed>>
    /\ UNCHANGED <<produced, threatVars, selectorVars, analysisVars, cycleVars, rerunVars, instanceVars, appVars>>

\* SIGTERM or SIGINT: main() installs processor.shutdown() as the handler of both,
\* so it runs in the worker between any two steps of the loop.
Shutdown(w) ==
    /\ pc[w] # "exited"
    /\ running[w]
    /\ running' = [running EXCEPT ![w] = FALSE]
    /\ closed' = [closed EXCEPT ![w] = TRUE]
    /\ UNCHANGED <<queue, dlq, completed, pc, task, err>>
    /\ UNCHANGED <<produced, threatVars, selectorVars, analysisVars, cycleVars, rerunVars, instanceVars, appVars>>

\* State after construction of every worker, with the producers' entries queued.
WorkerInit ==
    /\ queue \in { q \in [Items -> UNION { Payloads(i) : i \in Items }] :
                     \A i \in Items : q[i] \in Payloads(i) }
    /\ produced = queue
    /\ dlq = <<>>
    /\ completed = {}
    /\ pc = [w \in Workers |-> "while"]
    /\ task = [w \in Workers |-> NoTask]
    /\ err = [w \in Workers |-> NoError]
    /\ running = [w \in Workers |-> TRUE]
    /\ closed = [w \in Workers |-> FALSE]

\* The worker processes are not running (another program of the service is).
WorkerIdle ==
    /\ produced = <<>>
    /\ queue = <<>>
    /\ dlq = <<>>
    /\ completed = {}
    /\ pc = [w \in Workers |-> "exited"]
    /\ task = [w \in Workers |-> NoTask]
    /\ err = [w \in Workers |-> NoError]
    /\ running = [w \in Workers |-> FALSE]
    /\ closed = [w \in Workers |-> FALSE]

\* ---------------------------------------------------------------------------
\* Pair selector: batch_threat_analysis.py
\* ---------------------------------------------------------------------------
\* priority_categories of _generate_satellite_pairs.
priority_categories == {"stations", "active", "communications"}

\* Values of the fields the selector reads. CATEGORY is the CelesTrak group the
\* object was synced from (sync_satellites.py:163), OBJECT_TYPE comes from the
\* catalog entry itself. PERIOD is what tle_data.get('PERIOD', 0) returns: a
\* number (0 when the field is missing) or a value float() raises on.
Num(n) == [num |-> TRUE, val |-> n]
NotANumber == [num |-> FALSE, val |-> 0]
Categories == {"stations", "weather"}
ObjectTypes == {"DEBRIS", "PAYLOAD"}
Periods == {Num(0), Num(90), Num(100)}

Max(a, b) == IF a >= b THEN a ELSE b
Abs(a) == IF a >= 0 THEN a ELSE 0 - a

\* float(tle_data.get('PERIOD', 0)) raises ValueError or TypeError.
float_raises(p) == ~p.num

\* period_diff < 0.1 where period_diff = abs(p1 - p2) / max(p1, p2), for positive
\* p1 and p2; compared without the division: 10 * |p1 - p2| < max(p1, p2).
period_diff_below_tenth_or_equal(p1, p2) == 10 * Abs(p1 - p2) <= Max(p1, p2)

period_diff_below_tenth(p1, p2) == 10 * Abs(p1 - p2) < Max(p1, p2)

\* _should_analyze_pair: priority categories first, then the debris rule, then the
\* period comparison inside try/except; every other path returns True.
should_analyze_pair_no_debris_rule(sat1, sat2) ==
    IF sat1.category \in priority_categories \/ sat2.category \in priority_categories
    THEN TRUE
    ELSE IF float_raises(sat1.period) \/ float_raises(sat2.period)
    THEN TRUE
    ELSE IF sat1.period.val > 0 /\ sat2.period.val > 0
    THEN period_diff_below_tenth(sat1.period.val, sat2.period.val)
    ELSE TRUE

_should_analyze_pair(sat1, sat2) ==
    IF sat1.category \in priority_categories \/ sat2.category \in priority_categories
    THEN TRUE
    ELSE IF sat1.object_type = "DEBRIS" /\ sat2.object_type = "DEBRIS"
    THEN FALSE
    ELSE IF float_raises(sat1.period) \/ float_raises(sat2.period)
    THEN TRUE
    ELSE IF sat1.period.val > 0 /\ sat2.period.val > 0
    THEN period_diff_below_tenth(sat1.period.val, sat2.period.val)
    ELSE TRUE

\* First index of the inner loop: for j in range(i + 1, len(sat_ids)).
inner_range_start_same(i) == i

inner_range_start(i) == i + 1

\* _generate_satellite_pairs: the pairs (sat_ids[i], sat_ids[j]) in the order of
\* the two nested loops, kept when _should_analyze_pair accepts them.
_generate_satellite_pairs(sats) ==
    LET n == Len(sats)
        idx == [k \in 1..(n * n) |-> <<((k - 1) \div n) + 1, ((k - 1) % n) + 1>>]
        kept == SelectSeq(idx, LAMBDA p :
                    /\ p[2] >= inner_range_start(p[1])
                    /\ _should_analyze_pair(sats[p[1]], sats[p[2]]))
    IN [k \in 1..Len(kept) |-> <<sats[kept[k][1]].id, sats[kept[k][2]].id>>]

\* satellites = self._load_all_satellites(): the dict built from the keys
\* satellite:tle:*, in the order the store lists them; its keys are distinct.
LoadAllSatellites ==
    /\ spc = "load"
    /\ \E n \in 0..MaxSats :
       \E ids \in [1..n -> 1..MaxSats], cat \in [1..n -> Categories],
          typ \in [1..n -> ObjectTypes], per \in [1..n -> Periods] :
          /\ \A a, b \in 1..n : a # b => ids[a] # ids[b]
          /\ satellites' = [k \in 1..n |->
                 [id |-> ids[k], category |-> cat[k], object_type |-> typ[k],
                  period |-> per[k]]]
    /\ spc' = "select"
    /\ UNCHANGED pairs
    /\ UNCHANGED <<workerVars, threatVars, analysisVars, cycleVars, rerunVars, instanceVars, appVars>>

\* pairs = self._generate_satellite_pairs(satellites), run_batch_analysis line 80,
\* reached when the catalog holds at least two objects.
GenerateSatellitePairs ==
    /\ spc = "select"
    /\ Len(satellites) >= 2
    /\ pairs' = _generate_satellite_pairs(satellites)
    /\ spc' = "done"
    /\ UNCHANGED satellites
    /\ UNCHANGED <<workerVars, threatVars, analysisVars, cycleVars, rerunVars, instanceVars, appVars>>

SelectorInit ==
    /\ satellites = <<>>
    /\ pairs = <<>>
    /\ spc = "load"

SelectorIdle ==
    /\ satellites = <<>>
    /\ pairs = <<>>
    /\ spc = "done"

\* ---------------------------------------------------------------------------
\* The selector's predicate on its own: _should_analyze_pair on two entries
\* ---------------------------------------------------------------------------
\* PERIOD values the predicate is exercised on: missing or zero, negative, not a
\* number, and numbers that differ by less than, exactly, and more than a tenth.
RulePeriods == {Num(0), Num(0 - 90), NotANumber, Num(90), Num(99), Num(100)}

RuleEntries ==
    {[id |-> 1, category |-> c, object_type |-> t, period |-> p] :
        c \in Categories, t \in ObjectTypes, p \in RulePeriods}

\* self._should_analyze_pair(sat1, sat2), and the call a catalog listing the two
\* entries in the other order makes.
ShouldAnalyzePair ==
    /\ rpc = "call"
    /\ verdict' = <<_should_analyze_pair(cand[1], cand[2]),
                    _should_analyze_pair(cand[2], cand[1])>>
    /\ rpc' = "returned"
    /\ UNCHANGED cand
    /\ UNCHANGED <<workerVars, threatVars, selectorVars, samplerVars, classifierVars, cycleVars, rerunVars, instanceVars, appVars>>

RuleInit ==
    /\ cand \in RuleEntries \X RuleEntries
    /\ verdict = <<>>
    /\ rpc = "call"

RuleIdle ==
    /\ cand = <<>>
    /\ verdict = <<>>
    /\ rpc = "returned"

\* ---------------------------------------------------------------------------
\* Closest-approach analysis of one pair: _analyze_pair_collision_risk of
\* batch_threat_analysis.py and _check_collision_threat of threat_worker.py.
\* Distances are in tenths of a kilometre, times in minutes.
\* ---------------------------------------------------------------------------
\* Largest number of instants a window of the model holds.
MaxSteps == 3

None == [none |-> TRUE]

\* float('inf'): larger than every distance and every threshold of the model.
inf == 1000000

\* HIGH_RISK_THRESHOLD_KM = 10.0 and CRITICAL_THRESHOLD_KM = 2.0 unless the
\* environment sets them.
DefaultConfig == [CRITICAL_THRESHOLD_KM |-> 20, HIGH_RISK_THRESHOLD_KM |-> 100]

\* COLLISION_THRESHOLD_KM of threat_worker.py (5.0).
COLLISION_THRESHOLD_KM == 50

\* _calculate_threat_level of batch_threat_analysis.py.
calculate_threat_level_inclusive(distance_km, cfg) ==
    IF distance_km <= 5 THEN "EMERGENCY"
    ELSE IF distance_km <= cfg.CRITICAL_THRESHOLD_KM THEN "CRITICAL"
    ELSE IF distance_km <= 50 THEN "HIGH"
    ELSE IF distance_km <= cfg.HIGH_RISK_THRESHOLD_KM THEN "MEDIUM"
    ELSE "LOW"

_calculate_threat_level(distance_km, cfg) ==
    IF distance_km < 5 THEN "EMERGENCY"
    ELSE IF distance_km < cfg.CRITICAL_THRESHOLD_KM THEN "CRITICAL"
    ELSE IF distance_km < 50 THEN "HIGH"
    ELSE IF distance_km < cfg.HIGH_RISK_THRESHOLD_KM THEN "MEDIUM"
    ELSE "LOW"

\* _calculate_threat_level of threat_worker.py.
worker_calculate_threat_level_swapped(distance_km) ==
    IF distance_km < 10 THEN "CRITICAL"
    ELSE IF distance_km < 25 THEN "MEDIUM"
    ELSE IF distance_km < 50 THEN "HIGH"
    ELSE "LOW"

worker_calculate_threat_level(distance_km) ==
    IF distance_km < 10 THEN "CRITICAL"
    ELSE IF distance_km < 25 THEN "HIGH"
    ELSE IF distance_km < 50 THEN "MEDIUM"
    ELSE "LOW"

\* time_step = timedelta(minutes=5) in the batch analyzer, 30 in the threat worker.
time_step(prog) == IF prog = "batch" THEN 5 ELSE 30

\* The distance below which a record is returned.
record_threshold(prog, cfg) ==
    IF prog = "batch" THEN cfg.HIGH_RISK_THRESHOLD_KM ELSE COLLISION_THRESHOLD_KM

\* `while current_time < end_time:`
while_until_end_inclusive(current_time, end_time) == current_time <= end_time

while_before_end(current_time, end_time) == current_time < end_time

\* `if distance < min_distance:`
closer_or_equal(distance, min_distance) == distance <= min_distance

closer(distance, min_distance) == distance < min_distance

\* `if min_distance < HIGH_RISK_THRESHOLD_KM:` (COLLISION_THRESHOLD_KM in the worker)
at_or_below_threshold(min_distance, threshold) == min_distance <= threshold

below_threshold(min_distance, threshold) == min_distance < threshold

\* The sampling loop. sgp4[k] is what the k-th iteration's two propagations give:
\* the error codes e1 and e2 and, when both are 0, the distance of the positions.
RECURSIVE closest_approach_scan(_, _, _, _, _, _)
closest_approach_scan(sgp4, current_time, end_time, step, k, best) ==
    IF ~while_before_end(current_time, end_time)
    THEN best
    ELSE LET s == sgp4[k]
             found == s.e1 = 0 /\ s.e2 = 0 /\ closer(s.distance, best.min_distance)
             nbest == IF found
                      THEN [min_distance |-> s.distance,
                            closest_time |-> current_time,
                            closest_positions |-> k]
                      ELSE best
         IN closest_approach_scan(sgp4, current_time + step, end_time, step, k + 1, nbest)

\* The whole analysis of one pair: the record, or None. closest_positions is the
\* iteration whose position and velocity vectors were kept; the relative velocity
\* of the record is computed from them. An exception raised in the try block is
\* caught and None is returned.
_analyze_pair_collision_risk(c) ==
    IF c.raises
    THEN None
    ELSE
    LET best == closest_approach_scan(c.sgp4, c.start_time, c.start_time + c.window,
                    time_step(c.prog), 1,
                    [min_distance |-> inf, closest_time |-> None,
                     closest_positions |-> None])
    IN IF below_threshold(best.min_distance, record_threshold(c.prog, c.cfg))
       THEN [min_distance_km |-> best.min_distance,
             closest_approach_time |-> best.closest_time,
             positions_at_closest |-> best.closest_positions,
             threat_level |-> IF c.prog = "batch"
                              THEN _calculate_threat_level(best.min_distance, c.cfg)
                              ELSE worker_calculate_threat_level(best.min_distance)]
       ELSE None

\* Inputs the analysis is exercised on. A propagation either fails for one of the
\* two objects or gives a distance; 15 is 1.5 km, 50 and 100 are the thresholds
\* 5.0 km and 10.0 km, 510 is far away.
SampleDistances == {0, 15, 50, 100, 510}
Propagations ==
    {[e1 |-> 1, e2 |-> 0, distance |-> 0], [e1 |-> 0, e2 |-> 1, distance |-> 0]}
        \cup {[e1 |-> 0, e2 |-> 0, distance |-> d] : d \in SampleDistances}

\* Window lengths: negative, empty, and up to MaxSteps instants, ending on an
\* instant of the grid or one minute after it.
WindowLengths(step) ==
    {0 - step} \cup {q * step + r : q \in 0..(MaxSteps - 1), r \in 0..1}

StartTimes == {0, 7}

\* A configuration whose high-risk threshold is one of the sampled distances.
TightConfig == [CRITICAL_THRESHOLD_KM |-> 20, HIGH_RISK_THRESHOLD_KM |-> 15]

Configs(prog) == IF prog = "batch" THEN {DefaultConfig, TightConfig} ELSE {DefaultConfig}

\* threat = self._analyze_pair_collision_risk(sat1, sat2), and
\* self._check_collision_threat(sat1, sat2) in the threat worker.
AnalyzePairCollisionRisk ==
    /\ apc = "call"
    /\ aresult' = _analyze_pair_collision_risk(acall)
    /\ apc' = "returned"
    /\ UNCHANGED acall
    /\ UNCHANGED <<workerVars, threatVars, selectorVars, ruleVars, classifierVars, cycleVars, rerunVars, instanceVars, appVars>>

\* The calls: every combination of the inputs with propagations that return, and
\* calls in which a statement of the try block raises.
SamplerInit ==
    /\ \E p \in {"batch", "worker"}, g \in [1..MaxSteps -> Propagations] :
        \/ \E c \in Configs(p), t \in StartTimes, w \in WindowLengths(time_step(p)) :
              acall = [prog |-> p, cfg |-> c, start_time |-> t, window |-> w,
                       sgp4 |-> g, raises |-> FALSE]
        \/ acall = [prog |-> p, cfg |-> DefaultConfig, start_time |-> 0,
                     window |-> time_step(p), sgp4 |-> g, raises |-> TRUE]
    /\ aresult = None
    /\ apc = "call"

SamplerIdle ==
    /\ acall = None
    /\ aresult = None
    /\ apc = "returned"

\* ---------------------------------------------------------------------------
\* The classifiers on their own
\* ---------------------------------------------------------------------------
\* Distances around every band boundary of both classifiers, and settings of
\* CRITICAL_THRESHOLD_KM and HIGH_RISK_THRESHOLD_KM: the defaults, a critical
\* threshold below 0.5 km and one above 5.0 km, a high-risk threshold below the
\* critical one.
ClassifierDistances ==
    {0, 3, 4, 5, 6, 10, 15, 19, 20, 21, 25, 40, 49, 50, 70, 99, 100, 120}
ClassifierConfigs ==
    [CRITICAL_THRESHOLD_KM : {3, 20, 70}, HIGH_RISK_THRESHOLD_KM : {15, 40, 100}]

\* self._calculate_threat_level(distance) of the batch analyzer and of the threat
\* worker, each called on the two distances.
CalculateThreatLevel ==
    /\ cpc = "call"
    /\ levels' = <<_calculate_threat_level(ccall.d1, ccall.cfg),
                   _calculate_threat_level(ccall.d2, ccall.cfg),
                   worker_calculate_threat_level(ccall.d1),
                   worker_calculate_threat_level(ccall.d2)>>
    /\ cpc' = "returned"
    /\ UNCHANGED ccall
    /\ UNCHANGED <<workerVars, threatVars, selectorVars, ruleVars, samplerVars, cycleVars, rerunVars, instanceVars, appVars>>

ClassifierInit ==
    /\ ccall \in [cfg : ClassifierConfigs, d1 : ClassifierDistances,
                   d2 : ClassifierDistances]
    /\ levels = <<>>
    /\ cpc = "call"

ClassifierIdle ==
    /\ ccall = None
    /\ levels = <<>>
    /\ cpc = "returned"

\* ---------------------------------------------------------------------------
\* One batch cycle: run_batch_analysis of batch_threat_analysis.py
\* ---------------------------------------------------------------------------
\* BATCH_SIZE (100 unless the environment sets it), scaled to the model's catalogs.
BATCH_SIZE == 2
\* The lengths the persisted lists are cut to, scaled likewise: threats[:20] of the
\* report, threats[:100] of threats:batch:current, threats[:1000] of
\* batch_analysis:<timestamp>.
ReportLimit == 1
CurrentLimit == 1
HistoryLimit == 2
\* Number of alerts of one cycle whose creation the store may fail.
MaxAlertFaults == 1

\* The catalog of a cycle: three objects, listed by the store in any order. An
\* object is in a priority category, or an ordinary payload of period 90, or a
\* piece of debris of period 100.
CycleIds == {1, 2, 3}
CycleProfiles ==
    {[category |-> "stations", object_type |-> "PAYLOAD", period |-> Num(90)],
     [category |-> "weather", object_type |-> "PAYLOAD", period |-> Num(90)],
     [category |-> "weather", object_type |-> "DEBRIS", period |-> Num(100)]}
CycleCatalogs ==
    {[k \in 1..3 |-> [id |-> ids[k], category |-> pr[k].category,
                      object_type |-> pr[k].object_type, period |-> pr[k].period]] :
        ids \in {f \in [1..3 -> CycleIds] : \A a, b \in 1..3 : a # b => f[a] # f[b]},
        pr \in [1..3 -> CycleProfiles]}

\* What the propagations of a pair of objects give over the analysis window: a
\* closest sampled approach of 1.5 km, of 7.0 km, of 0.8 km, of 0.3 km, nothing
\* within 51 km, or an exception inside the analysis.
Track(d1, d2, r) ==
    [sgp4 |-> [k \in 1..MaxSteps |->
                  [e1 |-> 0, e2 |-> 0, distance |-> IF k = 2 THEN d2 ELSE d1]],
     raises |-> r]
NearTrack == Track(510, 15, FALSE)
MediumTrack == Track(70, 510, FALSE)
FarTrack == Track(510, 510, FALSE)
RaisingTrack == Track(510, 510, TRUE)
CloseTrack == Track(8, 510, FALSE)
GrazingTrack == Track(510, 3, FALSE)
Tracks == {NearTrack, MediumTrack, FarTrack, RaisingTrack, CloseTrack, GrazingTrack}
UnorderedPairs == {{a, b} : a, b \in CycleIds} \ {{a} : a \in CycleIds}

\* The record _analyze_pair_collision_risk returns for the pair (sat1_id, sat2_id),
\* or None; the window of a cycle holds two instants.
threat_of_first_instant_only(pair, trk) ==
    LET t == trk[{pair[1], pair[2]}]
        r == _analyze_pair_collision_risk(
                 [prog |-> "batch", cfg |-> DefaultConfig, start_time |-> 0,
                  window |-> time_step("batch"), sgp4 |-> t.sgp4,
                  raises |-> t.raises])
    IN IF r = None THEN None
       ELSE [satellite1 |-> pair[1], satellite2 |-> pair[2],
             min_distance_km |-> r.min_distance_km,
             threat_level |-> r.threat_level]

threat_of(pair, trk) ==
    LET t == trk[{pair[1], pair[2]}]
        r == _analyze_pair_collision_risk(
                 [prog |-> "batch", cfg |-> DefaultConfig, start_time |-> 0,
                  window |-> 2 * time_step("batch"), sgp4 |-> t.sgp4,
                  raises |-> t.raises])
    IN IF r = None THEN None
       ELSE [satellite1 |-> pair[1], satellite2 |-> pair[2],
             min_distance_km |-> r.min_distance_km,
             threat_level |-> r.threat_level]

\* _process_batch: every pair of the batch is analyzed in order inside its own
\* try/except; the records that are not None are appended.
process_batch_try_around_loop(batch, trk) ==
    LET raising == {k \in 1..Len(batch) : trk[{batch[k][1], batch[k][2]}].raises}
        upto == IF raising = {} THEN Len(batch)
                ELSE (CHOOSE k \in raising : \A l \in raising : k <= l) - 1
        kept == SelectSeq([k \in 1..upto |-> k],
                          LAMBDA k : threat_of(batch[k], trk) # None)
    IN [i \in 1..Len(kept) |-> threat_of(batch[kept[i]], trk)]

_process_batch(batch, trk) ==
    LET kept == SelectSeq([k \in 1..Len(batch) |-> k],
                          LAMBDA k : threat_of(batch[k], trk) # None)
    IN [i \in 1..Len(kept) |-> threat_of(batch[kept[i]], trk)]

\* for i in range(0, total_pairs, BATCH_SIZE): batch = pairs[i:i + BATCH_SIZE]
num_batches_floor(total_pairs) == total_pairs \div BATCH_SIZE

NumBatches(total_pairs) == (total_pairs + BATCH_SIZE - 1) \div BATCH_SIZE

batch_slice_short(prs, b) ==
    SubSeq(prs, (b - 1) * BATCH_SIZE + 1,
           IF b * BATCH_SIZE <= Len(prs) THEN b * BATCH_SIZE - 1 ELSE Len(prs) - 1)

batch_slice(prs, b) ==
    SubSeq(prs, (b - 1) * BATCH_SIZE + 1,
           IF b * BATCH_SIZE <= Len(prs) THEN b * BATCH_SIZE ELSE Len(prs))

\* The sort key of _process_analysis_results: level index, then distance.
level_index(level) ==
    CASE level = "EMERGENCY" -> 0
      [] level = "CRITICAL" -> 1
      [] level = "HIGH" -> 2
      [] level = "MEDIUM" -> 3
      [] level = "LOW" -> 4
sorts_before_or_equal_farthest_first(a, b) ==
    \/ level_index(a.threat_level) < level_index(b.threat_level)
    \/ /\ level_index(a.threat_level) = level_index(b.threat_level)
       /\ a.min_distance_km >= b.min_distance_km

sorts_before_or_equal(a, b) ==
    \/ level_index(a.threat_level) < level_index(b.threat_level)
    \/ /\ level_index(a.threat_level) = level_index(b.threat_level)
       /\ a.min_distance_km <= b.min_distance_km

\* threats.sort(key=...): a stable sort.
RECURSIVE sort_threats(_)
sort_threats(threats) ==
    IF threats = <<>> THEN <<>>
    ELSE LET front == sort_threats(SubSeq(threats, 1, Len(threats) - 1))
             x == threats[Len(threats)]
             n == Cardinality({k \in 1..Len(front) : sorts_before_or_equal(front[k], x)})
         IN SubSeq(front, 1, n) \o <<x>> \o SubSeq(front, n + 1, Len(front))

\* The value of a key that holds a list of records: absent, or the list written.
NotWritten == [written |-> FALSE]
Written(threats) == [written |-> TRUE, threats |-> threats]

\* threats[:n]
take(threats, n) == SubSeq(threats, 1, IF Len(threats) < n THEN Len(threats) ELSE n)

\* self.stats as __init__ leaves it (processing_time is not followed).
NewStats ==
    [total_satellites |-> 0, pairs_analyzed |-> 0, threats_found |-> 0,
     critical_threats |-> 0, high_threats |-> 0]

\* The counting loop of _process_analysis_results.
counts_as_critical(threat) == threat.threat_level \in {"EMERGENCY", "CRITICAL"}
count_threats(st, threats) ==
    LET idx == 1..Len(threats)
    IN [st EXCEPT
          !.threats_found = @ + Len(threats),
          !.critical_threats = @ + Cardinality({k \in idx : counts_as_critical(threats[k])}),
          !.high_threats = @ + Cardinality({k \in idx : threats[k].threat_level = "HIGH"})]

\* alert_key of _create_threat_alert: f"alert:batch:{id1}:{id2}".
alert_key(threat) == <<"alert", "batch", threat.satellite1, threat.satellite2>>

\* The alert _create_threat_alert builds (its two timestamps are not followed).
alert_of(threat) ==
    [type |-> "batch_collision_threat", severity |-> threat.threat_level,
     threat |-> threat]

\* What the store does to the two calls of _create_threat_alert: both return,
\* rpush raises, or rpush returns and setex raises.
AlertOutcomes == {"ok", "rpush_raises", "setex_raises"}

\* _create_threat_alert on the store st (the list alerts:critical, the alert:batch:*
\* keys, the failures logged): rpush, then setex, inside one try/except.
_create_threat_alert(threat, outcome, st) ==
    [queue |-> IF outcome = "rpush_raises" THEN st.queue
               ELSE Append(st.queue, alert_of(threat)),
     keys |-> IF outcome = "ok" THEN st.keys \cup {alert_key(threat)} ELSE st.keys,
     faults |-> IF outcome = "ok" THEN st.faults ELSE st.faults \cup {threat}]

\* if threat['threat_level'] in ['EMERGENCY', 'CRITICAL'] of the alert loop.
needs_alert_critical_only(threat) == threat.threat_level = "CRITICAL"

needs_alert(threat) == threat.threat_level \in {"EMERGENCY", "CRITICAL"}

\* for threat in threats: if ...: self._create_threat_alert(threat)
RECURSIVE create_alerts(_, _, _)
create_alerts(threats, outcomes, st) ==
    IF threats = <<>> THEN st
    ELSE create_alerts(Tail(threats), Tail(outcomes),
                       IF needs_alert(Head(threats))
                       THEN _create_threat_alert(Head(threats), Head(outcomes), st)
                       ELSE st)

\* The outcomes the store may give the alerts of a sorted list: those of records
\* that need no alert are never asked for.
AlertOutcomesOf(threats) ==
    {o \in [1..Len(threats) -> AlertOutcomes] :
        /\ \A k \in 1..Len(threats) : ~needs_alert(threats[k]) => o[k] = "ok"
        /\ Cardinality({k \in 1..Len(threats) : o[k] # "ok"}) <= MaxAlertFaults}

\* How far the two setex calls of _process_analysis_results get before the store
\* raises: neither key written, batch_analysis:<timestamp> only, or both.
ResultWrites == {"none", "history", "both"}

\* The status main exits with once run_batch_analysis has returned the statistics.
exit_status_found_first(st) ==
    IF st.threats_found > 0 THEN 1
    ELSE IF st.critical_threats > 0 THEN 2 ELSE 0

exit_status(st) ==
    IF st.critical_threats > 0 THEN 2
    ELSE IF st.threats_found > 0 THEN 1 ELSE 0
NotExited == [exited |-> FALSE]
Exited(code) == [exited |-> TRUE, code |-> code]

\* `except Exception` around future.result(): the failure is logged and the loop
\* over the completed futures goes on.
on_batch_exception_reraise == "raised"

on_batch_exception == "collect"

\* satellites = self._load_all_satellites(); pairs = self._generate_satellite_pairs(
\* satellites); every batch of pairs is submitted to the pool.
SubmitBatches ==
    /\ bpc = "start"
    /\ stats' = [stats EXCEPT !.total_satellites = Len(catalog)]
    /\ LET prs == _generate_satellite_pairs(catalog)
       IN futures' = [b \in 1..NumBatches(Len(prs)) |->
                         [batch |-> batch_slice(prs, b), state |-> "pending"]]
    /\ bpc' = "collect"
    /\ UNCHANGED <<catalog, tracks, all_threats, stored_threats, alert_keys>>
    /\ UNCHANGED <<batch_analysis, threat_report, alerts_critical, alert_faults, exit_code>>
    /\ UNCHANGED <<workerVars, threatVars, selectorVars, analysisVars, rerunVars, instanceVars, appVars>>

\* One iteration of `for future in as_completed(futures)`: future.result() returns
\* the batch's records, which are appended to all_threats, and pairs_analyzed
\* grows by BATCH_SIZE.
CollectBatch ==
    /\ bpc = "collect"
    /\ \E b \in 1..Len(futures) :
        /\ futures[b].state = "pending"
        /\ futures' = [futures EXCEPT ![b].state = "done"]
        /\ all_threats' = all_threats \o _process_batch(futures[b].batch, tracks)
    /\ stats' = [stats EXCEPT !.pairs_analyzed = @ + BATCH_SIZE]
    /\ UNCHANGED <<catalog, tracks, stored_threats, alert_keys, bpc>>
    /\ UNCHANGED <<batch_analysis, threat_report, alerts_critical, alert_faults, exit_code>>
    /\ UNCHANGED <<workerVars, threatVars, selectorVars, analysisVars, rerunVars, instanceVars, appVars>>

\* The same iteration when future.result() raises (the worker process died, the
\* batch could not be sent to it or brought back).
CollectBatchFailure ==
    /\ bpc = "collect"
    /\ \E b \in 1..Len(futures) :
        /\ futures[b].state = "pending"
        /\ futures' = [futures EXCEPT ![b].state = "failed"]
    /\ bpc' = on_batch_exception
    /\ UNCHANGED <<catalog, tracks, all_threats, stored_threats, alert_keys, stats>>
    /\ UNCHANGED <<batch_analysis, threat_report, alerts_critical, alert_faults, exit_code>>
    /\ UNCHANGED <<workerVars, threatVars, selectorVars, analysisVars, rerunVars, instanceVars, appVars>>

\* self._process_analysis_results(all_threats) once every future has been seen:
\* the records are counted, the list is sorted in place, its first records are
\* written to batch_analysis:<timestamp> and to threats:batch:current, and an
\* alert is created for every EMERGENCY or CRITICAL record of the list. An error
\* of the store in one of the two writes ends the method.
ProcessAnalysisResults ==
    /\ bpc = "collect"
    /\ \A b \in 1..Len(futures) : futures[b].state # "pending"
    /\ stats' = count_threats(stats, all_threats)
    /\ all_threats' = sort_threats(all_threats)
    /\ \E writes \in ResultWrites :
        /\ batch_analysis' = IF writes = "none" THEN NotWritten
                             ELSE Written(take(all_threats', HistoryLimit))
        /\ stored_threats' = IF writes = "both"
                             THEN Written(take(all_threats', CurrentLimit))
                             ELSE NotWritten
        /\ IF writes = "both"
           THEN \E outcomes \in AlertOutcomesOf(all_threats') :
                   LET st == create_alerts(all_threats', outcomes,
                                 [queue |-> alerts_critical, keys |-> alert_keys,
                                  faults |-> alert_faults])
                   IN /\ alerts_critical' = st.queue
                      /\ alert_keys' = st.keys
                      /\ alert_faults' = st.faults
           ELSE UNCHANGED <<alerts_critical, alert_keys, alert_faults>>
    /\ bpc' = "report"
    /\ UNCHANGED <<catalog, tracks, futures, threat_report, exit_code>>
    /\ UNCHANGED <<workerVars, threatVars, selectorVars, analysisVars, rerunVars, instanceVars, appVars>>

\* self._generate_threat_report(all_threats): the first records of the list are
\* written to threat_report:<date> unless the store raises; the statistics are
\* returned.
GenerateThreatReport ==
    /\ bpc = "report"
    /\ \E outcome \in StoreOutcomes :
        threat_report' = IF outcome = "ok" THEN Written(take(all_threats, ReportLimit))
                         ELSE NotWritten
    /\ bpc' = "done"
    /\ UNCHANGED <<catalog, tracks, futures, all_threats, stored_threats, alert_keys>>
    /\ UNCHANGED <<stats, batch_analysis, alerts_critical, alert_faults, exit_code>>
    /\ UNCHANGED <<workerVars, threatVars, selectorVars, analysisVars, rerunVars, instanceVars, appVars>>

\* main once run_batch_analysis has returned: sys.exit with the status the
\* statistics give.
MainExit ==
    /\ bpc = "done"
    /\ exit_code' = Exited(exit_status(stats))
    /\ bpc' = "exited"
    /\ UNCHANGED <<catalog, tracks, futures, all_threats, stored_threats, alert_keys>>
    /\ UNCHANGED <<stats, batch_analysis, threat_report, alerts_critical, alert_faults>>
    /\ UNCHANGED <<workerVars, threatVars, selectorVars, analysisVars, rerunVars, instanceVars, appVars>>

\* `except Exception` of main: BatchThreatAnalyzer() raised because the store
\* could not be reached, or run_batch_analysis raised; sys.exit(1).
MainException ==
    /\ bpc \in {"start", "raised"}
    /\ exit_code' = Exited(1)
    /\ bpc' = "exited"
    /\ UNCHANGED <<catalog, tracks, futures, all_threats, stored_threats, alert_keys>>
    /\ UNCHANGED <<stats, batch_analysis, threat_report, alerts_critical, alert_faults>>
    /\ UNCHANGED <<workerVars, threatVars, selectorVars, analysisVars, rerunVars, instanceVars, appVars>>

CycleInit ==
    /\ catalog \in CycleCatalogs
    /\ tracks \in [UnorderedPairs -> Tracks]
    /\ futures = <<>>
    /\ all_threats = <<>>
    /\ stored_threats = NotWritten
    /\ alert_keys = {}
    /\ bpc = "start"
    /\ stats = NewStats
    /\ batch_analysis = NotWritten
    /\ threat_report = NotWritten
    /\ alerts_critical = <<>>
    /\ alert_faults = {}
    /\ exit_code = NotExited

CycleIdle ==
    /\ catalog = <<>>
    /\ tracks = <<>>
    /\ futures = <<>>
    /\ all_threats = <<>>
    /\ stored_threats = NotWritten
    /\ alert_keys = {}
    /\ bpc = "idle"
    /\ stats = NewStats
    /\ batch_analysis = NotWritten
    /\ threat_report = NotWritten
    /\ alerts_critical = <<>>
    /\ alert_faults = {}
    /\ exit_code = NotExited

\* ---------------------------------------------------------------------------
\* Continuous threat worker: threat_worker.py, run_analysis_loop
\* ---------------------------------------------------------------------------
\* The orders in which the store lists the keys of objects 1 and 2.
Listings == {<<1, 2>>, <<2, 1>>}

\* ANALYSIS_INTERVAL, in seconds, and the seconds the loop waits after an
\* exception reached it.
ANALYSIS_INTERVAL == 300
LOOP_EXCEPTION_SLEEP == 60

\* What keys("satellite:tle:*") can list at a refresh: both objects in either
\* order, or object 1 alone once the key of object 2 has expired (the sync writes
\* every key with a time to live).
CatalogListings == Listings \cup {<<1>>}
KeysOf(seq) == {seq[k] : k \in 1..Len(seq)}

\* The loop `for key in keys:` of _update_satellite_cache on the cache dict:
\* self.satellites_cache[sat_id] = {...} sets the entry of every listed key; a
\* dict keeps its keys in the order of their first insertion.
update_cache(cache, keys) ==
    cache \o SelectSeq(keys, LAMBDA k : k \notin KeysOf(cache))

\* The condition of `while self.running and THREAT_ANALYSIS_ENABLED:`; main()
\* returns before the loop when the analysis is disabled.
threat_loop_condition_ignores_running == TRUE

threat_loop_condition == trunning

\* The catalog the threat worker reads holds objects 1 and 2; their closest
\* approach over the prediction window is 0.8 km, 2.0 km, 4.0 km or far away.
WorkerDistances == {8, 20, 40, 510}

\* _check_collision_threat(sat1_id, sat2_id): the record, or None.
_check_collision_threat(sat1_id, sat2_id, distance_km) ==
    LET r == _analyze_pair_collision_risk(
                 [prog |-> "worker", cfg |-> DefaultConfig, start_time |-> 0,
                  window |-> time_step("worker"),
                  sgp4 |-> Track(distance_km, distance_km, FALSE).sgp4,
                  raises |-> FALSE])
    IN IF r = None THEN None
       ELSE [satellite1 |-> sat1_id, satellite2 |-> sat2_id,
             min_distance_km |-> r.min_distance_km,
             threat_level |-> r.threat_level]

\* critical_threats = [t for t in threats if t['threat_level'] in ['CRITICAL', 'HIGH']]
critical_threats_of(ths) ==
    SelectSeq(ths, LAMBDA t : t.threat_level \in {"CRITICAL", "HIGH"})

\* The alert of _process_critical_threats and the key it is stored under:
\* f"alert:{datetime.now(timezone.utc).timestamp()}".
worker_alert_of(threat) ==
    [type |-> "collision_threat", severity |-> threat.threat_level,
     satellites |-> <<threat.satellite1, threat.satellite2>>, details |-> threat]
worker_alert_key(timestamp) == <<"alert", timestamp>>

\* The body of `for threat in critical_threats:` on the store st (the list
\* alerts:queue, the alert:* keys with their values, the clock): rpush, then
\* setex, inside one try/except.
RECURSIVE process_critical_threats(_, _, _)
process_critical_threats(ths, outcomes, st) ==
    IF ths = <<>> THEN st
    ELSE LET alert == worker_alert_of(Head(ths))
             o == Head(outcomes)
         IN process_critical_threats(Tail(ths), Tail(outcomes),
                [queue |-> IF o = "rpush_raises" THEN st.queue
                           ELSE Append(st.queue, alert),
                 history |-> IF o = "ok"
                             THEN st.history \cup
                                     {[key |-> worker_alert_key(st.clock), alert |-> alert]}
                             ELSE st.history,
                 clock |-> st.clock + 1])

\* The loop condition is evaluated. The worker is followed for MaxCycles cycles:
\* a further cycle is not entered, the exit is always open.
ThreatWhile ==
    /\ tpc = "while"
    /\ threat_loop_condition => cycles < MaxCycles
    /\ tpc' = IF threat_loop_condition THEN "cache" ELSE "exited"
    /\ UNCHANGED <<trunning, tclosed, cycles, threatStore>>
    /\ UNCHANGED <<workerVars, selectorVars, analysisVars, cycleVars, rerunVars, instanceVars, appVars>>

\* self._update_satellite_cache(): the first statement of a cycle. It catches every
\* exception itself: when the store cannot be read the cache keeps what it held.
\* A dict keeps the order in which its keys were first inserted.
UpdateSatelliteCache ==
    /\ tpc = "cache"
    /\ cycles' = cycles + 1
    /\ \E outcome \in StoreOutcomes :
          IF outcome = "ok"
          THEN /\ \E listing \in CatalogListings :
                     /\ satellites_cache' = update_cache(satellites_cache, listing)
                     /\ tle_keys' = listing
               /\ store_errors' = {}
          ELSE /\ UNCHANGED <<satellites_cache, tle_keys>>
               /\ store_errors' = {"cache"}
    /\ tpc' = "analyze"
    /\ UNCHANGED <<trunning, tclosed, cycle_threats, threats_current, alerts_queue,
                   alert_history, clock, last_sleep>>
    /\ UNCHANGED <<workerVars, selectorVars, analysisVars, cycleVars, rerunVars, instanceVars, appVars>>

\* threats = self._analyze_collision_threats(): every pair i < j of the cache.
AnalyzeCollisionThreats ==
    /\ tpc = "analyze"
    /\ \E d \in WorkerDistances :
          LET t == IF Len(satellites_cache) < 2 THEN None
                   ELSE _check_collision_threat(satellites_cache[1],
                                                satellites_cache[2], d)
          IN cycle_threats' = IF t = None THEN <<>> ELSE <<t>>
    /\ tpc' = "store"
    /\ UNCHANGED <<trunning, tclosed, cycles, satellites_cache, threats_current,
                   alerts_queue, alert_history, clock, store_errors, last_sleep,
                   tle_keys>>
    /\ UNCHANGED <<workerVars, selectorVars, analysisVars, cycleVars, rerunVars, instanceVars, appVars>>

\* self._store_threat_results(threats): catches every exception itself, so a
\* store that raises leaves threats:current as it was.
StoreThreatResults ==
    /\ tpc = "store"
    /\ \E outcome \in StoreOutcomes :
          IF outcome = "ok"
          THEN /\ threats_current' = Written(cycle_threats)
               /\ UNCHANGED store_errors
          ELSE /\ UNCHANGED threats_current
               /\ store_errors' = store_errors \cup {"store"}
    /\ tpc' = "critical"
    /\ UNCHANGED <<trunning, tclosed, cycles, satellites_cache, cycle_threats,
                   alerts_queue, alert_history, clock, last_sleep,
                   tle_keys>>
    /\ UNCHANGED <<workerVars, selectorVars, analysisVars, cycleVars, rerunVars, instanceVars, appVars>>

\* self._process_critical_threats(threats): catches every exception per threat.
ProcessCriticalThreats ==
    /\ tpc = "critical"
    /\ LET ths == critical_threats_of(cycle_threats)
       IN \E outcomes \in [1..Len(ths) -> AlertOutcomes] :
             LET st == process_critical_threats(ths, outcomes,
                           [queue |-> alerts_queue, history |-> alert_history,
                            clock |-> clock])
             IN /\ alerts_queue' = st.queue
                /\ alert_history' = st.history
                /\ clock' = st.clock
                /\ store_errors' =
                      IF \E k \in 1..Len(ths) : outcomes[k] # "ok"
                      THEN store_errors \cup {"critical"} ELSE store_errors
    /\ tpc' = "sleep"
    /\ UNCHANGED <<trunning, tclosed, cycles, satellites_cache, cycle_threats,
                   threats_current, last_sleep,
                   tle_keys>>
    /\ UNCHANGED <<workerVars, selectorVars, analysisVars, cycleVars, rerunVars, instanceVars, appVars>>

\* time.sleep(ANALYSIS_INTERVAL)
ThreatSleep ==
    /\ tpc = "sleep"
    /\ tpc' = "while"
    /\ last_sleep' = ANALYSIS_INTERVAL
    /\ UNCHANGED <<trunning, tclosed, cycles, satellites_cache, cycle_threats,
                   threats_current, alerts_queue, alert_history, clock, store_errors,
                   tle_keys>>
    /\ UNCHANGED <<workerVars, selectorVars, analysisVars, cycleVars, rerunVars, instanceVars, appVars>>

\* SIGTERM or SIGINT: main() installs analyzer.shutdown() as the handler.
ThreatShutdown ==
    /\ tpc # "exited"
    /\ trunning
    /\ trunning' = FALSE
    /\ tclosed' = TRUE
    /\ UNCHANGED <<tpc, cycles, threatStore>>
    /\ UNCHANGED <<workerVars, selectorVars, analysisVars, cycleVars, rerunVars, instanceVars, appVars>>

ThreatStoreInit ==
    /\ satellites_cache = <<>>
    /\ cycle_threats = <<>>
    /\ threats_current = NotWritten
    /\ alerts_queue = <<>>
    /\ alert_history = {}
    /\ clock = 0
    /\ store_errors = {}
    /\ last_sleep = 0
    /\ tle_keys = <<>>

ThreatInit ==
    /\ tpc = "while"
    /\ trunning = TRUE
    /\ tclosed = FALSE
    /\ cycles = 0
    /\ ThreatStoreInit

ThreatIdle ==
    /\ tpc = "exited"
    /\ trunning = FALSE
    /\ tclosed = FALSE
    /\ cycles = 0
    /\ ThreatStoreInit

\* ---------------------------------------------------------------------------
\* Consecutive batch cycles: the alerts of one conjunction, cycle after cycle
\* ---------------------------------------------------------------------------
\* Every cycle finds the conjunction of objects 1 and 2 again. The store lists the
\* two objects in either order (Listings), the closest approach is 0.3 km or
\* 1.5 km at the first or at the second instant of the window.
conjunction_of(listing, distance_km, closest_approach_time) ==
    [satellite1 |-> listing[1], satellite2 |-> listing[2],
     min_distance_km |-> distance_km,
     closest_approach_time |-> closest_approach_time,
     threat_level |-> _calculate_threat_level(distance_km, DefaultConfig)]
Conjunctions ==
    {conjunction_of(l, d, t) : l \in Listings, d \in {3, 15},
                               t \in {0, time_step("batch")}}

\* The alert loop of one more cycle, whose list holds the conjunction:
\* self._create_threat_alert(threat) on the store the earlier cycles left.
CreateThreatAlert ==
    /\ reruns < MaxCycles
    /\ \E threat \in Conjunctions, outcome \in AlertOutcomes :
          LET st == _create_threat_alert(threat, outcome,
                        [queue |-> rerun_alerts_critical, keys |-> rerun_alert_keys,
                         faults |-> rerun_alert_faults])
          IN /\ rerun_alerts_critical' = st.queue
             /\ rerun_alert_keys' = st.keys
             /\ rerun_alert_faults' = st.faults
    /\ reruns' = reruns + 1
    /\ UNCHANGED <<workerVars, threatVars, selectorVars, analysisVars, cycleVars,
                   instanceVars, appVars>>

RerunInit ==
    /\ reruns = 0
    /\ rerun_alerts_critical = <<>>
    /\ rerun_alert_keys = {}
    /\ rerun_alert_faults = {}

RerunIdle ==
    /\ reruns = MaxCycles
    /\ rerun_alerts_critical = <<>>
    /\ rerun_alert_keys = {}
    /\ rerun_alert_faults = {}

\* ---------------------------------------------------------------------------
\* One analyzer instance run again and again: the statistics of its cycles
\* ---------------------------------------------------------------------------
\* The records a cycle of the instance can find: none, one or two conjunctions at
\* 0.3 km, 1.5 km or 7.0 km.
FoundRecords == {conjunction_of(<<1, 2>>, d, 0) : d \in {3, 15, 70}}
FoundLists ==
    {<<>>} \cup {<<a>> : a \in FoundRecords} \cup {<<a, b>> : a, b \in FoundRecords}

\* The payloads of batch_analysis:<timestamp> and of threats:batch:current.
analysis_payload(st, threats) ==
    [written |-> TRUE, stats |-> st, threats |-> take(threats, HistoryLimit),
     total_threats |-> Len(threats)]
current_payload(st, threats) ==
    [written |-> TRUE, stats |-> st, threats |-> take(threats, CurrentLimit)]

\* What a call of run_batch_analysis can meet: _load_all_satellites returns no
\* object (the store raised or holds no catalog: it catches every exception), one
\* object or two; and an exception between the load and _process_analysis_results
\* (the pair generation, the process pool), which run_batch_analysis re-raises.
Loads == {0, 1, 2}
InstanceCalls == [loaded : Loads, raised : BOOLEAN]

\* `if len(satellites) < 2: return self.stats`
too_few_never(loaded) == FALSE
too_few(loaded) == loaded < 2

\* One more call of run_batch_analysis on the instance, against the store the
\* earlier calls left. A call that gets as far as _process_analysis_results has
\* batches returning the list `found`: it counts, sorts and writes
\* batch_analysis:<timestamp> and then threats:batch:current, a store error ending
\* the writes. self.stats is set up in __init__ only: the counting adds to what
\* the earlier calls left.
RunBatchAnalysis ==
    /\ instance_runs < MaxCycles
    /\ \E call \in InstanceCalls :
          /\ instance_call' = call
          /\ IF too_few(call.loaded) \/ call.raised
             THEN /\ instance_stats' =
                        [instance_stats EXCEPT !.total_satellites = call.loaded]
                  /\ UNCHANGED <<instance_analysis, instance_current>>
             ELSE \E found \in (IF call.loaded < 2 THEN {<<>>} ELSE FoundLists),
                     writes \in ResultWrites :
                     LET st == count_threats(
                                  [instance_stats EXCEPT
                                      !.total_satellites = call.loaded,
                                      !.pairs_analyzed = @ + BATCH_SIZE], found)
                     IN /\ instance_stats' = st
                        /\ instance_analysis' =
                              IF writes = "none" THEN instance_analysis
                              ELSE analysis_payload(st, sort_threats(found))
                        /\ instance_current' =
                              IF writes = "both"
                              THEN current_payload(st, sort_threats(found))
                              ELSE instance_current
    /\ instance_runs' = instance_runs + 1
    /\ UNCHANGED <<workerVars, threatVars, selectorVars, analysisVars, cycleVars,
                   rerunVars, appVars>>

InstanceInit ==
    /\ instance_runs = 0
    /\ instance_stats = NewStats
    /\ instance_analysis = NotWritten
    /\ instance_current = NotWritten
    /\ instance_call = None

InstanceIdle ==
    /\ instance_runs = MaxCycles
    /\ instance_stats = NewStats
    /\ instance_analysis = NotWritten
    /\ instance_current = NotWritten
    /\ instance_call = None

\* ---------------------------------------------------------------------------
\* The Flask application: app.py
\* ---------------------------------------------------------------------------
\* redis_client of the module: None when the connection failed at import.
NoClient == "None"
Client == "client"

\* `redis_client = redis.from_url(...); redis_client.ping()` at import, and its
\* except clause.
InitializeRedis ==
    /\ app_pc = "import"
    /\ \E outcome \in StoreOutcomes :
          redis_client' = IF outcome = "ok" THEN Client ELSE NoClient
    /\ app_pc' = "serving"
    /\ UNCHANGED <<health_call, health_response, assess_call, assessment, assess_pc>>
    /\ UNCHANGED <<workerVars, threatVars, selectorVars, analysisVars, cycleVars,
                   rerunVars, instanceVars>>

\* What redis_client.ping() does during a request, and what tracker.last_update
\* makes of data_freshness.
Pings == {"pong", "raise"}
Freshness == {"unknown", "fresh", "stale"}

healthy_body(redis_status, data_freshness) ==
    [status |-> "healthy", timestamp |-> "now", version |-> "1.0.0",
     services |-> [redis |-> redis_status, data_freshness |-> data_freshness]]
unhealthy_body(error) ==
    [status |-> "unhealthy", error |-> error, timestamp |-> "now"]

\* health_check() of app.py: the response of GET /health.
health_check_ping_error_swallowed(client, ping, data_freshness) ==
    [code |-> 200,
     body |-> healthy_body(IF client # NoClient /\ ping = "pong" THEN "healthy"
                           ELSE "unhealthy", data_freshness)]

health_check(client, ping, data_freshness) ==
    IF client # NoClient /\ ping = "raise"
    THEN [code |-> 503, body |-> unhealthy_body("ping")]
    ELSE [code |-> 200,
          body |-> healthy_body(IF client # NoClient THEN "healthy" ELSE "unhealthy",
                                data_freshness)]

\* A GET /health request is served.
HealthCheck ==
    /\ app_pc = "serving"
    /\ \E ping \in Pings, data_freshness \in Freshness :
          /\ health_call' = [ping |-> ping, data_freshness |-> data_freshness]
          /\ health_response' = health_check(redis_client, ping, data_freshness)
    /\ UNCHANGED <<app_pc, redis_client, assess_call, assessment, assess_pc>>
    /\ UNCHANGED <<workerVars, threatVars, selectorVars, analysisVars, cycleVars,
                   rerunVars, instanceVars>>

\* config.THREAT_THRESHOLD_KM: 10.0 unless CONJUNCTION_THRESHOLD_KM sets it.
THREAT_THRESHOLD_KM == 100

\* The tail of assess_conjunction_threat: the risk table and the return test.
\* `raises` stands for an exception of the propagation, which the method catches.
risk_of(min_distance, threshold) ==
    IF min_distance < 10 THEN [risk_level |-> "CRITICAL", probability |-> 90]
    ELSE IF min_distance < 50 THEN [risk_level |-> "HIGH", probability |-> 70]
    ELSE IF min_distance < threshold THEN [risk_level |-> "MEDIUM", probability |-> 40]
    ELSE [risk_level |-> "LOW", probability |-> 10]

assess_conjunction_threat(min_distance, threshold, raises) ==
    IF raises THEN None
    ELSE IF min_distance <= threshold
    THEN [minimum_distance_km |-> min_distance,
          risk_level |-> risk_of(min_distance, threshold).risk_level,
          probability |-> risk_of(min_distance, threshold).probability]
    ELSE None

\* Minimum distances around every band boundary, the default threshold and
\* thresholds below and above the 5.0 km boundary.
AssessDistances == {0, 9, 10, 11, 30, 49, 50, 51, 70, 99, 100, 101, 200, 201}
AssessThresholds == {THREAT_THRESHOLD_KM, 30, 200}

AssessConjunctionThreat ==
    /\ assess_pc = "call"
    /\ assessment' = assess_conjunction_threat(assess_call.min_distance,
                                               assess_call.threshold,
                                               assess_call.raises)
    /\ assess_pc' = "returned"
    /\ UNCHANGED <<app_pc, redis_client, health_call, health_response, assess_call>>
    /\ UNCHANGED <<workerVars, threatVars, selectorVars, analysisVars, cycleVars,
                   rerunVars, instanceVars>>

HealthInit ==
    /\ app_pc = "import"
    /\ redis_client = NoClient
    /\ health_call = None
    /\ health_response = None

HealthIdle ==
    /\ app_pc = "idle"
    /\ redis_client = NoClient
    /\ health_call = None
    /\ health_response = None

AssessInit ==
    /\ assess_call \in [min_distance : AssessDistances, threshold : AssessThresholds,
                         raises : BOOLEAN]
    /\ assessment = None
    /\ assess_pc = "call"

AssessIdle ==
    /\ assess_call = None
    /\ assessment = None
    /\ assess_pc = "returned"

AppIdle == HealthIdle /\ AssessIdle

\* ---------------------------------------------------------------------------
\* The programs of the service run as separate processes; one of them is followed
\* at a time.
\* ---------------------------------------------------------------------------
AnalysisIdle ==
    RuleIdle /\ SamplerIdle /\ ClassifierIdle /\ CycleIdle /\ RerunIdle /\ InstanceIdle
ServiceIdle == WorkerIdle /\ ThreatIdle /\ SelectorIdle

\* The long-running workers and the pair selector.
Init ==
    \/ WorkerInit /\ ThreatIdle /\ SelectorIdle /\ AnalysisIdle /\ AppIdle
    \/ WorkerIdle /\ ThreatInit /\ SelectorIdle /\ AnalysisIdle /\ AppIdle
    \/ WorkerIdle /\ ThreatIdle /\ SelectorInit /\ AnalysisIdle /\ AppIdle

Next ==
    \/ \E w \in Workers : WhileRunning(w)
    \/ \E w \in Workers : Lpop(w)
    \/ \E w \in Workers : ProcessTask(w)
    \/ \E w \in Workers : MarkTaskCompleted(w)
    \/ \E w \in Workers : HandleTaskFailure(w)
    \/ \E w \in Workers : Sleep(w)
    \/ \E w \in Workers : Shutdown(w)
    \/ ThreatWhile
    \/ UpdateSatelliteCache
    \/ AnalyzeCollisionThreats
    \/ StoreThreatResults
    \/ ProcessCriticalThreats
    \/ ThreatSleep
    \/ ThreatShutdown
    \/ LoadAllSatellites
    \/ GenerateSatellitePairs

Spec == Init /\ [][Next]_vars

\* The steps of worker w and of the threat worker other than the arrival of a
\* signal. Every store call and every sleep returns: no loop stays for ever at a
\* step it can take.
WorkerStep(w) ==
    \/ WhileRunning(w)
    \/ Lpop(w)
    \/ ProcessTask(w)
    \/ MarkTaskCompleted(w)
    \/ HandleTaskFailure(w)
    \/ Sleep(w)
ThreatStep ==
    \/ ThreatWhile
    \/ UpdateSatelliteCache
    \/ AnalyzeCollisionThreats
    \/ StoreThreatResults
    \/ ProcessCriticalThreats
    \/ ThreatSleep

\* The two long-running loops on their own: one task-queue worker is followed
\* from its start, the other workers have exited before taking an item; or the
\* threat worker is followed.
LoneWorkerInit ==
    /\ queue \in { q \in [Items -> UNION { Payloads(i) : i \in Items }] :
                     \A i \in Items : q[i] \in Payloads(i) }
    /\ produced = queue
    /\ dlq = <<>>
    /\ completed = {}
    /\ pc = [w \in Workers |-> IF w = 1 THEN "while" ELSE "exited"]
    /\ task = [w \in Workers |-> NoTask]
    /\ err = [w \in Workers |-> NoError]
    /\ running = [w \in Workers |-> w = 1]
    /\ closed = [w \in Workers |-> w # 1]

LiveInit ==
    \/ LoneWorkerInit /\ ThreatIdle /\ SelectorIdle /\ AnalysisIdle /\ AppIdle
    \/ WorkerIdle /\ ThreatInit /\ SelectorIdle /\ AnalysisIdle /\ AppIdle

LiveNext ==
    \/ \E w \in Workers : WorkerStep(w)
    \/ \E w \in Workers : Shutdown(w)
    \/ ThreatStep
    \/ ThreatShutdown

LiveSpec ==
    /\ LiveInit /\ [][LiveNext]_vars
    /\ \A w \in Workers : WF_vars(WorkerStep(w))
    /\ WF_vars(ThreatStep)

\* The analysis of the batch analyzer and of the threat worker: the selector's
\* predicate, the closest-approach analysis, the classifiers and the batch cycle.
AnalysisInit ==
    /\ ServiceIdle /\ AppIdle
    /\ \/ RuleInit /\ SamplerIdle /\ ClassifierIdle /\ CycleIdle /\ RerunIdle /\ InstanceIdle
       \/ RuleIdle /\ SamplerInit /\ ClassifierIdle /\ CycleIdle /\ RerunIdle /\ InstanceIdle
       \/ RuleIdle /\ SamplerIdle /\ ClassifierInit /\ CycleIdle /\ RerunIdle /\ InstanceIdle
       \/ RuleIdle /\ SamplerIdle /\ ClassifierIdle /\ CycleInit /\ RerunIdle /\ InstanceIdle
       \/ RuleIdle /\ SamplerIdle /\ ClassifierIdle /\ CycleIdle /\ RerunInit /\ InstanceIdle
       \/ RuleIdle /\ SamplerIdle /\ ClassifierIdle /\ CycleIdle /\ RerunIdle /\ InstanceInit

AnalysisNext ==
    \/ ShouldAnalyzePair
    \/ AnalyzePairCollisionRisk
    \/ CalculateThreatLevel
    \/ SubmitBatches
    \/ CollectBatch
    \/ CollectBatchFailure
    \/ ProcessAnalysisResults
    \/ GenerateThreatReport
    \/ MainExit
    \/ MainException
    \/ CreateThreatAlert
    \/ RunBatchAnalysis

AnalysisSpec == AnalysisInit /\ [][AnalysisNext]_vars

\* The Flask application: the health endpoint and the conjunction assessment.
AppInit ==
    /\ ServiceIdle /\ AnalysisIdle
    /\ \/ HealthInit /\ AssessIdle
       \/ HealthIdle /\ AssessInit

AppNext ==
    \/ InitializeRedis
    \/ HealthCheck
    \/ AssessConjunctionThreat

AppSpec == AppInit /\ [][AppNext]_vars

\* ---------------------------------------------------------------------------
\* Properties of the task-queue worker
\* ---------------------------------------------------------------------------
InQueue(i) == \E k \in 1..Len(queue) : queue[k].id = i
QueueCount(i) == Cardinality({k \in 1..Len(queue) : queue[k].id = i})
InDlq(i) == \E k \in 1..Len(dlq) : dlq[k].task.id = i
DlqCount(i) == Cardinality({k \in 1..Len(dlq) : dlq[k].task.id = i})
Holders(i) == {w \in Workers : task[w] # NoTask /\ task[w].id = i}

\* Entry i is somewhere: on the queue, held by a worker, completed or dead-lettered.
Accounted(i) == InQueue(i) \/ Holders(i) # {} \/ i \in completed \/ InDlq(i)

\* Worker w leaves _handle_task_failure in this step, having entered it with a
\* well-formed task.
FailureHandled(w) ==
    /\ pc[w] = "fail"
    /\ pc'[w] # "fail"
    /\ task[w].kind = "dict"

\* Worker w takes an entry off the queue in this step.
PopStep(w) == pc[w] = "lpop" /\ task[w] = NoTask /\ task'[w] # NoTask

\* C1: no work item is silently dropped: an entry that is on the queue, in a
\* worker's hands, completed or dead-lettered is still one of these after every
\* step of every worker (handler failure, malformed payload, store error).
C1_NoItemDropped ==
    [][\A i \in Items : Accounted(i) => Accounted(i)']_vars

\* C2: a work item that fails with its retry counter at or above the ceiling is,
\* once its failure has been handled, exactly once on the dead-letter list and
\* not on the queue; a dead-lettered item is never pushed onto the queue again.
C2_DeadLetteredExactlyOnce ==
    [][/\ \A w \in Workers, i \in Items :
            (FailureHandled(w) /\ task[w].id = i
                               /\ retry_count_of(task[w]) >= RetryCeiling)
                => (DlqCount(i)' = 1 /\ ~InQueue(i)')
       /\ \A i \in Items : InDlq(i) => (InDlq(i)' /\ ~InQueue(i)')]_vars

\* C3: a work item that fails with fewer than the ceiling of failures behind it is
\* back on the queue once the failure has been handled, and an item whose attempt
\* succeeded (it has been marked completed) is never on the dead-letter list.
C3_RetriedBelowCeiling ==
    [][/\ \A w \in Workers, i \in Items :
            (FailureHandled(w) /\ task[w].id = i
                               /\ retry_count_of(task[w]) < RetryCeiling)
                => InQueue(i)'
       /\ \A i \in Items : i \in completed => ~InDlq(i)']_vars

\* Entry i was pushed by its producer as a task with retry counter 0.
EnqueuedWithZero(i) ==
    \E k \in 1..Len(produced) :
        produced[k].id = i /\ produced[k].kind = "dict" /\ produced[k].retry_count = 0

\* C4: an item enqueued with retry counter 0 is, at each failure below the ceiling,
\* appended to the tail of the queue with its counter incremented by one and the
\* error recorded; at the failure at the ceiling (its fourth attempt, the third
\* retry) it is appended to the dead-letter list with retry_count = 3 and the
\* error of that attempt; its counter never exceeds 3.
C4_RetryLaw ==
    [][\A w \in Workers :
          (FailureHandled(w) /\ EnqueuedWithZero(task[w].id))
              => /\ retry_count_of(task[w]) <= RetryCeiling
                 /\ IF retry_count_of(task[w]) < RetryCeiling
                    THEN queue' = Append(queue,
                             [task[w] EXCEPT !.retry_count = task[w].retry_count + 1,
                                             !.last_error = err[w]])
                    ELSE dlq' = Append(dlq, [task |-> task[w], error |-> err[w]])]_vars

\* C5: with several workers polling, every entry is in exactly one place at a time:
\* held by at most one worker, and never at once in two of a worker's hands, the
\* queue and the dead-letter list (nor twice in any of them).
C5_ConsumedByOneWorker ==
    \A i \in Items : Cardinality(Holders(i)) + QueueCount(i) + DlqCount(i) <= 1

\* Two workers are active on the queue at once, one holding a retried entry.
C5_Witness ==
    \E w1, w2 \in Workers :
        /\ w1 # w2
        /\ task[w1] # NoTask /\ task[w1].kind = "dict" /\ task[w1].retry_count >= 1
        /\ pc[w1] = "fail"
        /\ pc[w2] = "lpop"

\* C6: the loop is left only from the evaluation of its condition with running
\* false (after a shutdown request): no exception raised while an item is
\* processed (handler error, malformed payload, store error) ends the loop, and
\* after the backoff the worker is back at the loop condition.
C6_LoopSurvivesItemFailure ==
    [][\A w \in Workers :
          /\ (pc[w] # "exited" /\ pc'[w] = "exited") => (pc[w] = "while" /\ ~running[w])
          /\ (pc[w] = "sleep10" /\ pc'[w] # "sleep10") => pc'[w] = "while"]_vars

\* An exception has reached the loop's handler and the worker polls again, with the
\* entry it held gone.
C6_Witness ==
    \E w \in Workers :
        /\ pc[w] = "sleep10" /\ running[w]
        /\ produced # <<>> /\ queue = <<>> /\ dlq = <<>> /\ completed = {}
        /\ \A v \in Workers : task[v] = NoTask

\* C7 as stated: once running is false the task-queue loop pops no further item
\* and the threat loop starts no further cycle, wherever the signal arrived.
C7_NoPollAfterShutdown ==
    [][/\ \A w \in Workers : ~running[w] => ~PopStep(w)
       /\ ~trunning => cycles' = cycles]_vars

\* C7 amended: once the shutdown signal has been handled the loop condition never
\* passes again, in either loop: the only item popped (cycle started) after the
\* signal is the one whose loop-condition check had already passed when the signal
\* arrived, and a worker that is not at that point pops nothing any more.
C7_NoNewPollAfterShutdown ==
    [][/\ \A w \in Workers :
            /\ (~running[w] /\ pc[w] # "lpop") => (~running'[w] /\ pc'[w] # "lpop")
            /\ PopStep(w) => pc[w] = "lpop"
       /\ (~trunning /\ tpc # "cache") => (~trunning' /\ tpc' # "cache")
       /\ cycles' # cycles => tpc = "cache"]_vars

\* A worker has left the loop after a shutdown signal that arrived while it held an
\* item, and it has disposed of that item.
C7_Witness ==
    \E w \in Workers :
        /\ pc[w] = "exited" /\ ~running[w] /\ closed[w]
        /\ completed # {}

\* C8: the store connection is released only after the in-flight item has finished
\* its completion or failure handling: no worker holds an item while its client is
\* closed.
C8_CloseAfterDrain ==
    \A w \in Workers : closed[w] => task[w] = NoTask

\* ---------------------------------------------------------------------------
\* Properties of the pair selector
\* ---------------------------------------------------------------------------
SatOf(id) == CHOOSE k \in 1..Len(satellites) : satellites[k].id = id
IsDebris(id) == satellites[SatOf(id)].object_type = "DEBRIS"
IsPriority(id) == satellites[SatOf(id)].category \in priority_categories

\* C9 as stated: whatever the categories, no emitted pair has two DEBRIS objects.
C9_NoDebrisDebrisPair ==
    spc = "done" =>
        \A k \in 1..Len(pairs) : ~(IsDebris(pairs[k][1]) /\ IsDebris(pairs[k][2]))

\* C9 amended: an emitted pair has two DEBRIS objects only if at least one of the
\* two has a category in the priority set.
C9_NoDebrisDebrisPairUnlessPriority ==
    spc = "done" =>
        \A k \in 1..Len(pairs) :
            (IsDebris(pairs[k][1]) /\ IsDebris(pairs[k][2]))
                => (IsPriority(pairs[k][1]) \/ IsPriority(pairs[k][2]))

\* A catalog in which one pair of two DEBRIS objects is emitted (one of them is in
\* a priority category) and another, of equal period and outside the priority
\* categories, is dropped.
C9_Witness ==
    /\ spc = "done"
    /\ \E k \in 1..Len(pairs) : IsDebris(pairs[k][1]) /\ IsDebris(pairs[k][2])
    /\ \E a, b \in 1..Len(satellites) :
        /\ a < b
        /\ satellites[a].object_type = "DEBRIS" /\ satellites[b].object_type = "DEBRIS"
        /\ satellites[a].category \notin priority_categories
        /\ satellites[b].category \notin priority_categories
        /\ satellites[a].period = Num(90) /\ satellites[b].period = Num(90)
        /\ \A k \in 1..Len(pairs) : pairs[k] # <<satellites[a].id, satellites[b].id>>

\* C10: the selector's output is a set of unordered pairs of distinct identities:
\* no object is paired with itself, and no unordered pair is emitted twice, in
\* either order.
C10_PairsDistinctAndUnique ==
    spc = "done" =>
        /\ \A k \in 1..Len(pairs) : pairs[k][1] # pairs[k][2]
        /\ \A k, l \in 1..Len(pairs) :
              k # l => {pairs[k][1], pairs[k][2]} # {pairs[l][1], pairs[l][2]}

\* Every pair of a catalog of three objects is emitted.
C10_Witness ==
    spc = "done" /\ Len(satellites) = 3 /\ Len(pairs) = 3

\* ---------------------------------------------------------------------------
\* Properties of the selector's predicate
\* ---------------------------------------------------------------------------
PositivePeriod(sat) == sat.period.num /\ sat.period.val > 0

\* The four rules of the pair selector, in their precedence order.
PairRule(a, b) ==
    IF a.category \in priority_categories \/ b.category \in priority_categories
    THEN TRUE
    ELSE IF a.object_type = "DEBRIS" /\ b.object_type = "DEBRIS"
    THEN FALSE
    ELSE IF PositivePeriod(a) /\ PositivePeriod(b)
    THEN 10 * Abs(a.period.val - b.period.val) < Max(a.period.val, b.period.val)
    ELSE TRUE

\* C11: _should_analyze_pair agrees with the four rules in their precedence order
\* (priority category: include; else both DEBRIS: exclude; else both periods
\* positive numbers: include exactly when they differ by less than a tenth of the
\* longer one; else include), and gives the same answer on (sat2, sat1).
C11_SelectorFollowsRules ==
    rpc = "returned" /\ cand # <<>> =>
        /\ verdict[1] = PairRule(cand[1], cand[2])
        /\ verdict[2] = verdict[1]

\* The predicate has excluded two non-priority objects, not both DEBRIS, whose
\* periods differ by exactly a tenth of the longer one.
C11_Witness ==
    /\ rpc = "returned" /\ cand # <<>>
    /\ cand[1].category \notin priority_categories
    /\ cand[2].category \notin priority_categories
    /\ cand[1].object_type # "DEBRIS"
    /\ cand[1].period = Num(90) /\ cand[2].period = Num(100)
    /\ verdict = <<FALSE, FALSE>>

\* ---------------------------------------------------------------------------
\* Properties of the closest-approach analysis
\* ---------------------------------------------------------------------------
\* The call has returned (not one of the other programs' states).
Analyzed == apc = "returned" /\ acall # None

\* Number of instants the window of call c holds: start, start + step, ... < end.
NumSampled(c) ==
    IF c.window <= 0 THEN 0
    ELSE (c.window + time_step(c.prog) - 1) \div time_step(c.prog)

\* The k-th sampled instant.
Instant(c, k) == c.start_time + (k - 1) * time_step(c.prog)

\* The sampled instants at which both propagations succeeded.
Succeeded(c) == {k \in 1..NumSampled(c) : c.sgp4[k].e1 = 0 /\ c.sgp4[k].e2 = 0}

\* C13: a returned record has a distance >= 0 and its instant is one of the
\* sampled instants start + k * step with start <= instant < end; when the window
\* end is not after its start no instant is sampled and no record is returned.
C13_SampledInstantAndDistance ==
    Analyzed =>
        /\ aresult # None =>
              /\ aresult.min_distance_km >= 0
              /\ \E k \in 1..NumSampled(acall) :
                    aresult.closest_approach_time = Instant(acall, k)
              /\ acall.start_time <= aresult.closest_approach_time
              /\ aresult.closest_approach_time < acall.start_time + acall.window
        /\ acall.window <= 0 => aresult = None

\* A record whose instant is the last one of a window that ends one minute after
\* it, later than the window start.
C13_Witness ==
    /\ Analyzed /\ aresult # None
    /\ ~acall.raises
    /\ aresult.closest_approach_time = Instant(acall, NumSampled(acall))
    /\ aresult.closest_approach_time > acall.start_time
    /\ aresult.closest_approach_time + 1 = acall.start_time + acall.window

MinOf(S) == CHOOSE x \in S : \A y \in S : x <= y

\* C14: an instant at which a propagation fails is skipped and the others still
\* count: the reported distance is the minimum over the sampled instants at which
\* both propagations succeeded, the reported instant is the earliest one attaining
\* it and the vectors kept are those of that instant; when the propagation fails at
\* every sampled instant no record is returned (and nothing is raised).
C14_MinimumOverSuccessfulInstants ==
    Analyzed =>
        /\ aresult # None =>
              /\ Succeeded(acall) # {}
              /\ LET least == MinOf({acall.sgp4[k].distance : k \in Succeeded(acall)})
                     first == MinOf({k \in Succeeded(acall) :
                                        acall.sgp4[k].distance = least})
                 IN /\ aresult.min_distance_km = least
                    /\ aresult.closest_approach_time = Instant(acall, first)
                    /\ aresult.positions_at_closest = first
        /\ Succeeded(acall) = {} => aresult = None

\* A record from a window in which the first propagation failed and the minimum
\* is attained at the two later instants: the earlier of them is reported.
C14_Witness ==
    /\ Analyzed /\ aresult # None
    /\ NumSampled(acall) = 3
    /\ Succeeded(acall) = {2, 3}
    /\ acall.sgp4[2].distance = acall.sgp4[3].distance
    /\ aresult.closest_approach_time = Instant(acall, 2)

\* C17: every record the batch analysis returns has a minimum distance strictly
\* below the high-risk threshold in force, and under the default thresholds no
\* record has the level LOW.
C17_RecordsBelowHighRisk ==
    Analyzed /\ acall.prog = "batch" /\ aresult # None =>
        /\ aresult.min_distance_km < acall.cfg.HIGH_RISK_THRESHOLD_KM
        /\ acall.cfg = DefaultConfig => aresult.threat_level # "LOW"

\* A batch record of the least severe level a record can have under the default
\* thresholds, from a window in which 10.0 km was sampled too.
C17_Witness ==
    /\ Analyzed /\ acall.prog = "batch" /\ aresult # None
    /\ acall.cfg = DefaultConfig
    /\ aresult.threat_level = "MEDIUM"
    /\ \E k \in Succeeded(acall) : acall.sgp4[k].distance = 100

\* ---------------------------------------------------------------------------
\* Properties of the classifiers
\* ---------------------------------------------------------------------------
Classified == cpc = "returned" /\ ccall # None

\* The band table of the default thresholds: 0.5, 2.0, 5.0 and 10.0 km.
DefaultBand(d) ==
    CASE d < 5 -> "EMERGENCY"
      [] 5 <= d /\ d < 20 -> "CRITICAL"
      [] 20 <= d /\ d < 50 -> "HIGH"
      [] 50 <= d /\ d < 100 -> "MEDIUM"
      [] d >= 100 -> "LOW"

Severity(level) ==
    CASE level = "EMERGENCY" -> 4
      [] level = "CRITICAL" -> 3
      [] level = "HIGH" -> 2
      [] level = "MEDIUM" -> 1
      [] level = "LOW" -> 0

\* C15: under the default thresholds the batch classifier maps a distance below
\* 0.5 km to EMERGENCY, from 0.5 to below 2.0 to CRITICAL, from 2.0 to below 5.0 to
\* HIGH, from 5.0 to below 10.0 to MEDIUM and 10.0 or more to LOW: a boundary value
\* falls in the less severe band.
C15_DefaultBands ==
    Classified /\ ccall.cfg = DefaultConfig =>
        /\ levels[1] = DefaultBand(ccall.d1)
        /\ levels[2] = DefaultBand(ccall.d2)

\* The boundary 2.0 km has been classified HIGH and 0.5 km CRITICAL.
C15_Witness ==
    /\ Classified /\ ccall.cfg = DefaultConfig
    /\ ccall.d1 = 20 /\ levels[1] = "HIGH"
    /\ ccall.d2 = 5 /\ levels[2] = "CRITICAL"

\* C16: classification is monotonic in both programs and for every setting of the
\* critical and high-risk thresholds: a smaller distance never gets a less severe
\* level than a larger one.
C16_Monotonic ==
    Classified /\ ccall.d1 <= ccall.d2 =>
        /\ Severity(levels[1]) >= Severity(levels[2])
        /\ Severity(levels[3]) >= Severity(levels[4])

\* Two distances in different bands under a critical threshold above 5.0 km (the
\* HIGH band is empty), which the worker puts in MEDIUM and LOW.
C16_Witness ==
    /\ Classified /\ ccall.cfg.CRITICAL_THRESHOLD_KM = 70
    /\ ccall.d1 < ccall.d2
    /\ levels[1] = "CRITICAL" /\ levels[2] = "MEDIUM"
    /\ levels[3] = "MEDIUM" /\ levels[4] = "LOW"

\* ---------------------------------------------------------------------------
\* Properties of the batch cycle
\* ---------------------------------------------------------------------------
\* A cycle is being followed, and every submitted batch has been seen.
InCycle == catalog # <<>>
Collected ==
    /\ InCycle
    /\ \/ bpc \in {"report", "done"}
       \/ bpc = "exited" /\ stats.total_satellites > 0

EntryOf(id) == catalog[CHOOSE k \in 1..Len(catalog) : catalog[k].id = id]

\* The record the analysis of a pair must give: 1.5 km and 0.8 km are CRITICAL,
\* 7.0 km is MEDIUM, 0.3 km is EMERGENCY, and a pair that stays far away or whose
\* analysis raises gives none.
ExpectedThreat(pair) ==
    LET t == tracks[{pair[1], pair[2]}]
        rec(d, l) == [satellite1 |-> pair[1], satellite2 |-> pair[2],
                      min_distance_km |-> d, threat_level |-> l]
    IN CASE t = NearTrack -> rec(15, "CRITICAL")
         [] t = MediumTrack -> rec(70, "MEDIUM")
         [] t = CloseTrack -> rec(8, "CRITICAL")
         [] t = GrazingTrack -> rec(3, "EMERGENCY")
         [] OTHER -> None

\* The records a batch must return: those of its pairs, in submission order.
ExpectedOfBatch(batch) ==
    LET kept == SelectSeq(batch, LAMBDA p : ExpectedThreat(p) # None)
    IN [i \in 1..Len(kept) |-> ExpectedThreat(kept[i])]

\* The records of a batch as all_threats holds them: in submission order while the
\* batches are collected, and in the order of the in-place sort afterwards.
HeldOfBatch(batch) ==
    IF bpc = "collect" THEN ExpectedOfBatch(batch)
    ELSE sort_threats(ExpectedOfBatch(batch))

PairsOfBatch(b) == {futures[b].batch[k] : k \in 1..Len(futures[b].batch)}
RecordsOfBatch(b) ==
    SelectSeq(all_threats, LAMBDA t : <<t.satellite1, t.satellite2>> \in PairsOfBatch(b))

\* C12: the key of a pair is canonical: the alert key alert:batch:<id1>:<id2> is
\* the same whichever order the catalog lists the objects in, with the smaller
\* identifier first.
C12_PairKeyCanonical ==
    \A key \in alert_keys : key[3] < key[4]

\* The scenario of C18: A = 1 and B = 2 come within 1.5 km of each other at a
\* sampled instant, C = 3 stays more than 50 km from both, and every batch returns.
ThreeObjectScenario ==
    /\ Collected
    /\ tracks[{1, 2}] = NearTrack
    /\ tracks[{1, 3}] = FarTrack /\ tracks[{2, 3}] = FarTrack
    /\ \A b \in 1..Len(futures) : futures[b].state = "done"

IsRecordOfAB(t) ==
    /\ {t.satellite1, t.satellite2} = {1, 2}
    /\ t.min_distance_km = 15
    /\ t.threat_level = "CRITICAL"

\* C18 as stated: whatever the categories, types and periods of the three objects,
\* the cycle yields exactly one record, for (A, B), at level CRITICAL.
C18_OneCriticalRecord ==
    ThreeObjectScenario =>
        Len(all_threats) = 1 /\ IsRecordOfAB(all_threats[1])

\* C18 amended: the cycle yields exactly one record, for (A, B) at level CRITICAL,
\* when the pair selector's rules admit (A, B), and no record at all when they
\* exclude it; no record ever involves C.
C18_OneCriticalRecordIfAdmitted ==
    ThreeObjectScenario =>
        /\ PairRule(EntryOf(1), EntryOf(2)) =>
              Len(all_threats) = 1 /\ IsRecordOfAB(all_threats[1])
        /\ ~PairRule(EntryOf(1), EntryOf(2)) => all_threats = <<>>
        /\ \A k \in 1..Len(all_threats) :
              all_threats[k].satellite1 # 3 /\ all_threats[k].satellite2 # 3

\* The scenario with A and B two ordinary payloads of equal period, C a piece of
\* debris the selector pairs with neither: the single record is stored.
C18_Witness ==
    /\ ThreeObjectScenario /\ bpc = "done"
    /\ EntryOf(1).category = "weather" /\ EntryOf(2).category = "weather"
    /\ EntryOf(1).object_type = "PAYLOAD" /\ EntryOf(2).object_type = "PAYLOAD"
    /\ EntryOf(3).object_type = "DEBRIS"
    /\ Len(all_threats) = 1 /\ IsRecordOfAB(all_threats[1])
    /\ stored_threats = Written(all_threats)

\* C19: a failing batch does not abort the cycle: the cycle never raises, and once
\* every batch has been seen all_threats holds exactly the records of the batches
\* that returned and none of a failed batch; what is written to the store is the
\* head of that list, sorted by level and distance, and the report step follows.
C19_FailedBatchDoesNotAbort ==
    InCycle =>
        /\ bpc # "raised"
        /\ Collected =>
              /\ \A b \in 1..Len(futures) :
                    /\ futures[b].state = "done" =>
                          RecordsOfBatch(b) = HeldOfBatch(futures[b].batch)
                    /\ futures[b].state = "failed" => RecordsOfBatch(b) = <<>>
              /\ \A k \in 1..Len(all_threats) : \E b \in 1..Len(futures) :
                    <<all_threats[k].satellite1, all_threats[k].satellite2>>
                        \in PairsOfBatch(b)
              /\ stored_threats.written =>
                    LET stored == stored_threats.threats
                    IN /\ stored = take(all_threats, CurrentLimit)
                       /\ \A k, l \in 1..Len(stored) :
                             k < l => sorts_before_or_equal(stored[k], stored[l])

\* A cycle has ended in which one batch failed (its pairs include one that comes
\* within 1.5 km) and the record of the other batch was stored.
C19_Witness ==
    /\ InCycle /\ bpc = "done"
    /\ \E b, c \in 1..Len(futures) :
          /\ futures[b].state = "failed"
          /\ \E k \in 1..Len(futures[b].batch) :
                ExpectedThreat(futures[b].batch[k]) # None
          /\ futures[c].state = "done"
          /\ RecordsOfBatch(c) # <<>>
    /\ stored_threats.written /\ stored_threats.threats # <<>>

\* C20: within a batch a pair whose analysis raises contributes no record and
\* does not stop the batch: the records a returned batch contributes are those of
\* its other pairs, in submission order (until the cycle sorts its list).
C20_RaisingPairSkipped ==
    InCycle =>
        \A b \in 1..Len(futures) :
            futures[b].state = "done" =>
                RecordsOfBatch(b) = HeldOfBatch(futures[b].batch)

\* A returned batch whose first pair raised and whose second pair gave a record.
C20_Witness ==
    /\ InCycle
    /\ \E b \in 1..Len(futures) :
          /\ futures[b].state = "done"
          /\ Len(futures[b].batch) = 2
          /\ tracks[{futures[b].batch[1][1], futures[b].batch[1][2]}] = RaisingTrack
          /\ ExpectedThreat(futures[b].batch[2]) # None
          /\ RecordsOfBatch(b) = <<ExpectedThreat(futures[b].batch[2])>>

\* ---------------------------------------------------------------------------
\* Properties of the batches, the statistics, the persisted lists and the alerts
\* ---------------------------------------------------------------------------
\* The batches of the cycle have been submitted.
Submitted ==
    /\ InCycle
    /\ \/ bpc \in {"collect", "report", "done"}
       \/ bpc = "exited" /\ stats.total_satellites > 0

\* The places (batch, position) of the submitted batches that hold pair p.
PlacesOf(p) ==
    {bi \in (1..Len(futures)) \X (1..BATCH_SIZE) :
        bi[2] <= Len(futures[bi[1]].batch) /\ futures[bi[1]].batch[bi[2]] = p}

BatchesPartitionPairs ==
    LET prs == _generate_satellite_pairs(catalog)
    IN /\ \A k \in 1..Len(prs) : Cardinality(PlacesOf(prs[k])) = 1
       /\ \A b \in 1..Len(futures) :
             /\ \A i \in 1..Len(futures[b].batch) :
                   \E k \in 1..Len(prs) : prs[k] = futures[b].batch[i]
             /\ Len(futures[b].batch) \in 1..BATCH_SIZE
             /\ b < Len(futures) => Len(futures[b].batch) = BATCH_SIZE

\* A step that changes the futures either submits the batches of the cycle, or
\* sees one pending batch return or fail, its pairs unchanged.
SubmittedOnceSeenOnce ==
    futures' # futures =>
        \/ bpc = "start" /\ futures = <<>>
        \/ /\ Len(futures') = Len(futures)
           /\ \E b \in 1..Len(futures) :
                 /\ futures[b].state = "pending"
                 /\ futures'[b].state \in {"done", "failed"}
                 /\ futures'[b].batch = futures[b].batch
                 /\ \A c \in 1..Len(futures) : c # b => futures'[c] = futures[c]

\* C21: every selected pair is in exactly one batch, every batch holds at most
\* BATCH_SIZE pairs and every batch but the last exactly BATCH_SIZE; the batches
\* are submitted once, each is seen once, and a batch that returned or failed is
\* never pending again.
C21_BatchesPartitionPairs ==
    /\ [](Submitted => BatchesPartitionPairs)
    /\ [][SubmittedOnceSeenOnce]_vars

\* Three selected pairs in a batch of BATCH_SIZE and a shorter last batch; one
\* failed, the other returned, and the cycle ended.
C21_Witness ==
    /\ Submitted /\ bpc = "exited"
    /\ Len(_generate_satellite_pairs(catalog)) = 3
    /\ Len(futures) = 2
    /\ Len(futures[1].batch) = BATCH_SIZE /\ Len(futures[2].batch) = 1
    /\ futures[1].state = "failed" /\ futures[2].state = "done"

\* C22: stats['pairs_analyzed'] never exceeds the number of selected pairs, and
\* equals it at the end of a cycle in which every batch returned.
C22_PairsAnalyzedIsPairCount ==
    Submitted =>
        LET total_pairs == Len(_generate_satellite_pairs(catalog))
        IN /\ stats.pairs_analyzed <= total_pairs
           /\ (/\ bpc \in {"done", "exited"}
               /\ \A b \in 1..Len(futures) : futures[b].state = "done")
              => stats.pairs_analyzed = total_pairs

\* a ranks no later than b: a higher severity, or the same and no larger distance.
RanksNoLater(a, b) ==
    \/ Severity(a.threat_level) > Severity(b.threat_level)
    \/ /\ Severity(a.threat_level) = Severity(b.threat_level)
       /\ a.min_distance_km <= b.min_distance_km

\* The lists of records the cycle has written: batch_analysis:<timestamp>,
\* threats:batch:current and the top_threats of threat_report:<date>.
PersistedLists ==
    {v.threats : v \in {w \in {batch_analysis, stored_threats, threat_report} : w.written}}

\* The records of the cycle a list leaves out.
LeftOut(list) ==
    {k \in 1..Len(all_threats) : \A l \in 1..Len(list) : list[l] # all_threats[k]}

\* C23: every persisted list of threat records is ordered by severity
\* descending, then by distance ascending, and no record of the cycle it leaves
\* out ranks before one it holds.
C23_PersistedListsRanked ==
    InCycle =>
        \A list \in PersistedLists :
            /\ \A k, l \in 1..Len(list) : k < l => RanksNoLater(list[k], list[l])
            /\ \A k \in LeftOut(list), l \in 1..Len(list) :
                  RanksNoLater(list[l], all_threats[k])

\* The three lists of a cycle whose first selected pair gave the MEDIUM record
\* and whose other pairs gave CRITICAL records at 1.5 km and at 0.8 km: the first
\* two of the ranked records, and the first.
C23_Witness ==
    /\ Collected /\ bpc = "exited"
    /\ batch_analysis.written /\ stored_threats.written /\ threat_report.written
    /\ Len(all_threats) = 3 /\ all_threats[3].threat_level = "MEDIUM"
    /\ ExpectedThreat(_generate_satellite_pairs(catalog)[1]).threat_level = "MEDIUM"
    /\ Len(batch_analysis.threats) = HistoryLimit
    /\ batch_analysis.threats[1].min_distance_km = 8
    /\ batch_analysis.threats[2].min_distance_km = 15
    /\ Len(stored_threats.threats) = CurrentLimit
    /\ Len(threat_report.threats) = ReportLimit
    /\ threat_report.threats[1].min_distance_km = 8

\* The alerts of the cycle: pushed onto alerts:critical, stored under alert:batch:*.
Pushed(t) == \E k \in 1..Len(alerts_critical) : alerts_critical[k].threat = t
PushedOnce(t) ==
    Cardinality({k \in 1..Len(alerts_critical) : alerts_critical[k].threat = t}) = 1
Stored(t) == alert_key(t) \in alert_keys
Escalated(t) == t.threat_level \in {"CRITICAL", "EMERGENCY"}
Records == {all_threats[k] : k \in 1..Len(all_threats)}

\* C24 as stated: after a cycle, a record has an alert pushed and stored if and
\* only if its level is CRITICAL or EMERGENCY, the records whose own alert could
\* not be created set aside.
C24_AlertIffEscalated ==
    (Collected /\ bpc \in {"report", "done", "exited"}) =>
        \A t \in Records \ alert_faults : (Pushed(t) /\ Stored(t)) <=> Escalated(t)

\* C24 amended: the same once both lists of the cycle have been written to the
\* store; no record below CRITICAL ever has an alert, a record whose own alert
\* could not be created is CRITICAL or EMERGENCY and is not stored, and a cycle
\* whose lists could not both be written creates no alert at all.
C24_AlertIffEscalatedWhenWritten ==
    (Collected /\ bpc \in {"report", "done", "exited"}) =>
        /\ stored_threats.written =>
              \A t \in Records \ alert_faults :
                  (PushedOnce(t) /\ Stored(t)) <=> Escalated(t)
        /\ \A t \in Records : ~Escalated(t) => ~Pushed(t) /\ ~Stored(t)
        /\ \A t \in alert_faults : t \in Records /\ Escalated(t) /\ ~Stored(t)
        /\ ~stored_threats.written => alerts_critical = <<>> /\ alert_keys = {}

\* Three records, EMERGENCY first: the alert of the first could not be created,
\* the other two, CRITICAL and beyond the list written to threats:batch:current
\* (the last beyond the list of batch_analysis:<timestamp> too), are pushed and
\* stored.
C24_Witness ==
    /\ Collected /\ bpc = "exited"
    /\ stored_threats.written /\ batch_analysis.written
    /\ Len(all_threats) = 3
    /\ all_threats[1].threat_level = "EMERGENCY"
    /\ alert_faults = {all_threats[1]}
    /\ \A k \in {2, 3} :
          /\ all_threats[k].threat_level = "CRITICAL"
          /\ Pushed(all_threats[k]) /\ Stored(all_threats[k])
          /\ \A l \in 1..Len(stored_threats.threats) :
                stored_threats.threats[l] # all_threats[k]
    /\ \A l \in 1..Len(batch_analysis.threats) :
          batch_analysis.threats[l] # all_threats[3]

\* What the exit status is to tell: the records the cycle found.
ExitTellsThreats ==
    /\ exit_code.code = 0 <=> Records = {}
    /\ exit_code.code = 1 <=> (Records # {} /\ \A t \in Records : ~Escalated(t))
    /\ exit_code.code = 2 <=> \E t \in Records : Escalated(t)

\* C28 as stated: the run exits with 0 exactly when no threats were found, with
\* 1 exactly when threats were found and none is CRITICAL or EMERGENCY, and with
\* 2 exactly when at least one is.
C28_ExitCodeTellsThreats ==
    (InCycle /\ exit_code.exited) => ExitTellsThreats

\* C28 amended: so it is for a run whose cycle returned its statistics; a run
\* that ended with an exception, before any threat was looked for, exits with 1.
C28_ExitCodeTellsThreatsOrFailure ==
    (InCycle /\ exit_code.exited) =>
        IF Collected THEN ExitTellsThreats
        ELSE exit_code.code = 1 /\ Records = {}

\* A run exited with 1 after a cycle that found one record, at level MEDIUM.
C28_Witness ==
    /\ Collected /\ exit_code.exited /\ exit_code.code = 1
    /\ Len(all_threats) = 1 /\ all_threats[1].threat_level = "MEDIUM"

\* The records the catalog (as the store lists it) and the propagation results
\* determine: one for every selected pair whose analysis gives one.
DeterminedRecords ==
    LET prs == _generate_satellite_pairs(catalog)
    IN {ExpectedThreat(prs[k]) : k \in 1..Len(prs)} \ {None}

PairOf(t) == {t.satellite1, t.satellite2}
DedupKey(t) == <<PairOf(t), t.closest_approach_time>>

\* The stored alerts of a pair of objects, the pushed alerts of a dedup key.
StoredAlertsOf(pair) == {key \in rerun_alert_keys : {key[3], key[4]} = pair}
PushedAlertsOf(dedup) ==
    {k \in 1..Len(rerun_alerts_critical) :
        DedupKey(rerun_alerts_critical[k].threat) = dedup}

\* C25: consecutive cycles that each find the same pair at CRITICAL or EMERGENCY
\* leave one stored alert for the pair, the later overwriting the earlier.
C25_OneStoredAlertPerPair ==
    Cardinality(StoredAlertsOf({1, 2})) <= 1

\* C26: at most one alert of a dedup key (pair and closest-approach time) is
\* pushed onto the alert queue over consecutive cycles.
C26_OnePushedAlertPerDedupKey ==
    \A k \in 1..Len(rerun_alerts_critical) :
        Cardinality(PushedAlertsOf(DedupKey(rerun_alerts_critical[k].threat))) <= 1

\* ---------------------------------------------------------------------------
\* Properties of the cycles of the threat worker
\* ---------------------------------------------------------------------------
\* The stored alerts of the threat worker for a pair of objects.
WorkerAlertsOf(pair) ==
    {e \in alert_history : {e.alert.satellites[1], e.alert.satellites[2]} = pair}

\* C27: the threat worker's stored alerts are keyed by pair: whatever the number
\* of cycles, the store holds at most one alert for a pair.
C27_WorkerOneStoredAlertPerPair ==
    Cardinality(WorkerAlertsOf({1, 2})) <= 1

\* C30: a store error is fatal to the current cycle of the threat worker: once
\* the store raised in a step no later step of the cycle runs, and the next cycle
\* starts after the 60 s the loop waits on an exception.
C30_StoreErrorEndsCycle ==
    /\ "cache" \in store_errors => tpc \notin {"store", "critical", "sleep"}
    /\ "store" \in store_errors => tpc # "sleep"
    /\ (store_errors # {} /\ tpc \in {"while", "cache"}) =>
          last_sleep = LOOP_EXCEPTION_SLEEP

\* ---------------------------------------------------------------------------
\* C33: the threat worker classifies with the table of the batch analyzer
\* ---------------------------------------------------------------------------
\* C33 (as stated): under the default thresholds the classifier of the threat
\* worker gives every distance the level the classifier of the batch analyzer
\* gives it.
C33_WorkerClassifiesAsBatch ==
    (Classified /\ ccall.cfg = DefaultConfig) =>
        /\ levels[3] = levels[1]
        /\ levels[4] = levels[2]

\* ---------------------------------------------------------------------------
\* C37: the persisted snapshots and the completion order of the batches
\* ---------------------------------------------------------------------------
\* The records of the first b batches, batch after batch in submission order.
RECURSIVE InSubmissionOrder(_)
InSubmissionOrder(b) ==
    IF b = 0 THEN <<>>
    ELSE InSubmissionOrder(b - 1) \o ExpectedOfBatch(futures[b].batch)

\* C37 (as stated): the snapshots a cycle persists do not depend on the order in
\* which its batches complete: threats:batch:current and batch_analysis:<ts> hold
\* the lists a cycle whose batches complete in submission order stores, the same
\* records in the same order, also when records share level and distance.
C37_SnapshotsIgnoreCompletionOrder ==
    LET ranked == sort_threats(InSubmissionOrder(Len(futures)))
    IN (/\ Collected
        /\ \A b \in 1..Len(futures) : futures[b].state = "done"
        /\ stored_threats.written) =>
            /\ stored_threats.threats = take(ranked, CurrentLimit)
            /\ batch_analysis.threats = take(ranked, HistoryLimit)

\* ---------------------------------------------------------------------------
\* Properties of the application: /health and the conjunction assessment
\* ---------------------------------------------------------------------------
Answered == health_response # None
PingRaised == redis_client # NoClient /\ health_call.ping = "raise"
HealthyAnswer ==
    /\ health_response.code = 200
    /\ health_response.body.status = "healthy"
    /\ {"version", "timestamp"} \subseteq DOMAIN health_response.body

\* C34 (as stated): GET /health answers 200 with status 'healthy', a version and
\* a timestamp in every state of the store connection: connected, not configured,
\* failing.
C34_HealthAlwaysHealthy == Answered => HealthyAnswer

\* C34 (amended): GET /health answers 200 with status 'healthy', a version and a
\* timestamp when the store answers the ping and when the application has no store
\* client; when the ping of an existing client raises, it answers 503 with status
\* 'unhealthy', the error and a timestamp, and no version.
C34_HealthUnlessPingRaises ==
    Answered =>
        IF PingRaised
        THEN /\ health_response.code = 503
             /\ health_response.body.status = "unhealthy"
             /\ DOMAIN health_response.body = {"status", "error", "timestamp"}
        ELSE /\ HealthyAnswer
             /\ health_response.body.services.redis =
                    (IF redis_client = NoClient THEN "unhealthy" ELSE "healthy")

\* A request met a client whose ping raised and was answered 503.
C34_Witness ==
    /\ Answered /\ PingRaised
    /\ health_response.code = 503

\* C35 (as stated): assess_conjunction_threat returns an assessment only for a
\* minimum distance strictly below the conjunction threshold, and never one of risk
\* level LOW, also at a minimum distance equal to the threshold.
Assessed == assess_pc = "returned" /\ assess_call # None
C35_AssessmentBelowThresholdNeverLow ==
    (Assessed /\ assessment # None) =>
        /\ assess_call.min_distance < assess_call.threshold
        /\ assessment.risk_level # "LOW"

\* ---------------------------------------------------------------------------
\* Properties of an analyzer instance run again
\* ---------------------------------------------------------------------------
\* C38 (as stated): after every completed cycle, a second cycle on the same
\* instance included, the persisted statistics agree with the persisted threats:
\* threats_found is the number of records of the cycle and critical_threats the
\* number of its EMERGENCY and CRITICAL records.
C38_StatsAgreeWithThreats ==
    (instance_runs > 0 /\ instance_analysis.written) =>
        LET p == instance_analysis
        IN /\ p.stats.threats_found = p.total_threats
           /\ p.total_threats = Len(p.threats) =>
                p.stats.critical_threats =
                    Cardinality({k \in 1..Len(p.threats) : counts_as_critical(p.threats[k])})

\* ---------------------------------------------------------------------------
\* C36: an item whose handler completed is not executed again
\* ---------------------------------------------------------------------------
\* The handler of a 'predict' item only logs, so it completes without error every
\* time it runs: such an item is back on the queue with a retry counter, or on the
\* dead-letter list, only when recording its completion failed.
HandlerAlwaysCompletes(t) == t.kind = "dict" /\ HandlerOutcomes(t.type) = {"ok"}

\* C36 (as stated): an item whose type handler completed without error is never
\* executed a second time: a failure while recording the completion puts it
\* neither back on the queue nor on the dead-letter list.
C36_CompletedItemNotRunAgain ==
    /\ \A k \in 1..Len(queue) :
          HandlerAlwaysCompletes(queue[k]) => queue[k] = produced[queue[k].id]
    /\ \A k \in 1..Len(dlq) : ~HandlerAlwaysCompletes(dlq[k].task)
    /\ \A w \in Workers :
          (pc[w] = "process" /\ HandlerAlwaysCompletes(task[w])) =>
              task[w] = produced[task[w].id]

\* ---------------------------------------------------------------------------
\* C39: the cache of the threat worker after a refresh
\* ---------------------------------------------------------------------------
\* The refresh of the current cycle succeeded.
Refreshed == tpc \in {"analyze", "store", "critical", "sleep"} /\ "cache" \notin store_errors

\* C39 (as stated): after each successful refresh the objects of the local cache
\* are those the catalog store holds: an object whose key expired or was removed
\* is no longer in the cache, and no record of the cycle is about it.
C39_CacheIsCatalog ==
    Refreshed =>
        /\ KeysOf(satellites_cache) = KeysOf(tle_keys)
        /\ tpc # "analyze" =>
              \A k \in 1..Len(cycle_threats) :
                  {cycle_threats[k].satellite1, cycle_threats[k].satellite2}
                      \subseteq KeysOf(tle_keys)

\* ---------------------------------------------------------------------------
\* C32: the steps of a cycle of the threat worker
\* ---------------------------------------------------------------------------
\* The catalog entries of the two objects the threat worker reads: two pieces of
\* debris of the 'weather' group, a pair the Pair Selector does not admit.
WorkerCatalogEntry(id) ==
    [id |-> id, category |-> "weather", object_type |-> "DEBRIS", period |-> Num(90)]

\* C32 (as stated): a cycle of the threat worker runs refresh, pair selection,
\* analysis, persistence and alerting in that order: every analyzed pair is one the
\* rules of the Pair Selector admit, and no alert of a cycle is pushed before the
\* results of that cycle are persisted.
C32_SelectedPairsPersistedBeforeAlert ==
    /\ \A k \in 1..Len(cycle_threats) :
          _should_analyze_pair(WorkerCatalogEntry(cycle_threats[k].satellite1),
                               WorkerCatalogEntry(cycle_threats[k].satellite2))
    /\ (tpc = "sleep" /\ cycles = 1 /\ alerts_queue # <<>>) =>
          threats_current = Written(cycle_threats)

\* ---------------------------------------------------------------------------
\* C31: an abandoned cycle and the last persisted snapshot
\* ---------------------------------------------------------------------------
\* The call that just returned or raised was abandoned: the catalog was
\* unavailable or held fewer than two objects, or an exception ended it before
\* _process_analysis_results.
Abandoned ==
    /\ instance_call # None
    /\ instance_call.loaded < 2 \/ instance_call.raised

\* C31: an abandoned cycle never replaces the last persisted snapshot: a call of
\* run_batch_analysis that is abandoned leaves threats:batch:current exactly as the
\* last successful cycle wrote it.
C31_AbandonedCycleKeepsSnapshot ==
    [][(instance_runs' = instance_runs + 1 /\ Abandoned') =>
            instance_current' = instance_current]_vars

\* An abandoned call that followed a cycle which had persisted a snapshot with a
\* record.
C31_Witness ==
    /\ instance_runs = 2 /\ Abandoned
    /\ instance_current.written
    /\ instance_current.threats # <<>>

\* ---------------------------------------------------------------------------
\* C40: both loops exit after a shutdown request
\* ---------------------------------------------------------------------------
\* C40: after a shutdown request the task-queue loop and the threat analysis loop
\* eventually exit, whatever step the loop was in when the request arrived (idle
\* sleep, error backoff, an item or a cycle in flight), provided every store call
\* and every sleep returns.
C40_LoopsExitAfterShutdown ==
    /\ \A w \in Workers : closed[w] ~> (pc[w] = "exited")
    /\ tclosed ~> (tpc = "exited")

\* The worker has received its shutdown request with an item in flight, its
\* handler done and the completion not yet recorded.
C40_Witness ==
    /\ closed[1] /\ ~running[1]
    /\ pc[1] = "mark" /\ task[1] # NoTask

====
